---------------------------- MODULE Spec2Model ----------------------------
(***************************************************************************)
(* Model of the analysis core of the stock-analysis platform:              *)
(*   services/relative_strength.py  calculate_relative_strength            *)
(*   services/indicators.py         calculate_macd, calculate_sma, ...     *)
(*   services/scoring.py            calculate_strength_score               *)
(*   services/projection.py         calculate_projection                   *)
(*   main.py                        analyze_watchlist,                     *)
(*                                  analyze_specific_watchlist             *)
(* and of its web layer (main.py): the watchlist handlers                  *)
(* add_stock_to_watchlists, delete_watchlist, create_default_watchlist,    *)
(* register and login, and the caches price_cache and search_cache.        *)
(*                                                                         *)
(* Numbers.  Python floats are modelled as exact rationals <<num, den>>    *)
(* (den > 0, lowest terms); round(x, 2) is modelled as rounding to an      *)
(* integer number of hundredths.  Prices are integers (currency units).    *)
(* A data frame is [bars |-> the sequence of its bars [Date, Close,       *)
(* Volume] in ascending date order]; an empty frame has no bars; None is   *)
(* a record of its own, as are a pending result and a raised exception.    *)
(***************************************************************************)
EXTENDS Integers, Sequences, FiniteSets, TLC

VARIABLES
    stock_df,       \* result of fetch_historical_data(symbol)
    nifty_df,       \* result of fetch_nifty_data()
    lib,            \* latest values delivered by the ta / pandas indicator calls
    months,         \* projection horizon
    rs_result,      \* what get_relative_strength_score returned (Pending before)
    rs_locals,      \* the locals of calculate_relative_strength at its return
    score_result,   \* what calculate_strength_score returned (Pending before)
    score_locals,   \* its locals at the return: rs, indicators, current_price,
                    \* liquidity, and subtotals: `score` after each of the ten rules
    proj_result,    \* what calculate_projection returned (Pending before)
    sma_result,     \* what calculate_sma returned (Pending before)
    batch,          \* one request of a watchlist analysis handler: its
                    \* watchlist, loop position, qualifying_stocks and response
    calls,          \* the scoring calls in progress: per call its inputs, its
                    \* position and its locals
    users_collection,       \* MongoDB collection users (unique index on email)
    watchlists_collection,  \* MongoDB collection watchlists: its documents in
                            \* insertion order
    requests,       \* the HTTP requests in progress: per request its handler,
                    \* its arguments, the await it is suspended at, its locals
    price_cache,    \* main.price_cache: symbol -> (data, timestamp)
    market_feed_cache,  \* main.market_feed_cache: data and timestamp
    search_cache,   \* main.search_cache: its (key, timestamp) items in dict order
    utcnow,         \* what datetime.utcnow() returns, in seconds
    response        \* the response of the request served last

coreVars == <<stock_df, nifty_df, lib, months, rs_result, rs_locals,
              score_result, score_locals, proj_result, sma_result, batch, calls>>

webVars == <<users_collection, watchlists_collection, requests, price_cache,
             market_feed_cache, search_cache, utcnow, response>>

vars == <<coreVars, webVars>>

None == [none |-> TRUE]

Pending == [pending |-> TRUE]

\* a local assignment x = v followed by Body(x): v is computed once
Let(v, Body(_)) == CHOOSE r \in { Body(x) : x \in {v} } : TRUE

\* the outcome of a call that raised
Raised(exc) == [raised |-> exc]

IsFrame(df) == "bars" \in DOMAIN df

\* The web layer at rest: the specifications of the analysis core serve no
\* request, and those of the web layer run no analysis.
WebIdle ==
    /\ users_collection = None
    /\ watchlists_collection = None
    /\ requests = None
    /\ price_cache = None
    /\ market_feed_cache = None
    /\ search_cache = None
    /\ utcnow = 0
    /\ response = None

----------------------------------------------------------------------------
(* Bounds of the model *)

\* number of bars of the longest series
MaxBars == 22
\* largest projection horizon (months)
MaxMonths == 102

----------------------------------------------------------------------------
(* Exact arithmetic standing for Python float arithmetic *)

Abs(x) == IF x < 0 THEN -x ELSE x

Max(a, b) == IF a >= b THEN a ELSE b

Min(a, b) == IF a <= b THEN a ELSE b

RECURSIVE GCD(_, _)
GCD(a, b) == IF b = 0 THEN a ELSE GCD(b, a % b)

\* the rational n/d in lowest terms with a positive denominator (d # 0)
Rat(n, d) ==
    LET g == GCD(Abs(n), Abs(d))
        s == IF d < 0 THEN -1 ELSE 1
    IN  <<(s * n) \div g, (s * d) \div g>>

FromInt(n) == <<n, 1>>

\* products and sums cancel common factors first, so that the integers stay
\* small
RMul(x, y) ==
    LET g1 == GCD(Abs(x[1]), y[2])
        g2 == GCD(Abs(y[1]), x[2])
    IN  Rat((x[1] \div g1) * (y[1] \div g2), (x[2] \div g2) * (y[2] \div g1))

RDiv(x, y) == RMul(x, Rat(y[2], y[1]))

RAdd(x, y) ==
    LET g == GCD(x[2], y[2])
    IN  Rat(x[1] * (y[2] \div g) + y[1] * (x[2] \div g), x[2] * (y[2] \div g))

RSub(x, y) == RAdd(x, <<-y[1], y[2]>>)

RLt(x, y) ==
    LET g == GCD(x[2], y[2])
    IN  x[1] * (y[2] \div g) < y[1] * (x[2] \div g)

RLeq(x, y) ==
    LET g == GCD(x[2], y[2])
    IN  x[1] * (y[2] \div g) <= y[1] * (x[2] \div g)

RGt(x, y) == RLt(y, x)

RGeq(x, y) == RLeq(y, x)

RAbs(x) == <<Abs(x[1]), x[2]>>

\* round(x, 2): the nearest number of hundredths, ties to even
Round2(x) ==
    LET n == x[1] * 100
        q == n \div x[2]
        r == n % x[2]
    IN  IF 2 * r > x[2] THEN q + 1
        ELSE IF 2 * r < x[2] THEN q
        ELSE IF q % 2 = 0 THEN q ELSE q + 1

\* float('nan'): what the indicator library delivers where a series is shorter
\* than the window.  It is a reserved integer below every price and every
\* indicator value; the float operations below treat it as Python does.
NaN == -1000000000

\* a > b, a >= b, a < b, a <= b of two floats: False when either is nan
FGt(a, b) == a # NaN /\ b # NaN /\ a > b

FGe(a, b) == a # NaN /\ b # NaN /\ a >= b

FLt(a, b) == a # NaN /\ b # NaN /\ a < b

FLe(a, b) == a # NaN /\ b # NaN /\ a <= b

\* round(x, 2) of a float with an integer value, in hundredths; nan stays nan
FRound2(x) == IF x = NaN THEN NaN ELSE Round2(FromInt(x))

----------------------------------------------------------------------------
(* pandas helpers *)

Dates(df) == { df.bars[i].Date : i \in 1..Len(df.bars) }

\* Index.intersection: the dates of both frames, ascending
IndexIntersection(a, b) ==
    LET db == Dates(b)
        keep(bar) == bar.Date \in db
        sel == SelectSeq(a.bars, keep)
    IN  [i \in 1..Len(sel) |-> sel[i].Date]

\* df.loc[dates]['Close']: the closes of the bars of df on the given dates
\* (dates of df, ascending)
CloseAt(df, dates) ==
    LET ds == { dates[i] : i \in 1..Len(dates) }
        keep(bar) == bar.Date \in ds
        sel == SelectSeq(df.bars, keep)
    IN  [i \in 1..Len(sel) |-> sel[i].Close]

\* series.iloc[-k], 1 <= k <= Len(series)
ILocNeg(series, k) == series[Len(series) - k + 1]

RECURSIVE RMaxFrom(_, _)
RMaxFrom(series, i) ==
    IF i = Len(series) THEN series[i]
    ELSE LET m == RMaxFrom(series, i + 1)
         IN  IF RGeq(series[i], m) THEN series[i] ELSE m

\* series.max() of a non-empty series
SeriesMax(series) == RMaxFrom(series, 1)

\* series.tail(k)
Tail_(series, k) ==
    IF Len(series) <= k THEN series
    ELSE SubSeq(series, Len(series) - k + 1, Len(series))

RECURSIVE SumSeq(_)
SumSeq(s) == IF s = << >> THEN 0 ELSE Head(s) + SumSeq(Tail(s))


----------------------------------------------------------------------------
(* services/relative_strength.py *)

\* the lookback of the RS trend, in bars
RsLookback == 20
\* "within 2% of high": the tolerance factor 0.98, in hundredths
NewHighPct == 98
\* the base of the RS index
RsBase == 100

\* rs_ratio = stock_aligned / nifty_aligned
RsRatio(stock_aligned, nifty_aligned) ==
    [i \in 1..Len(stock_aligned) |-> Rat(stock_aligned[i], nifty_aligned[i])]

\* a mutant: the index normalised by its last value
RsNormalizedByLast(rs_ratio) ==
    [i \in 1..Len(rs_ratio) |->
        RMul(RDiv(rs_ratio[i], rs_ratio[Len(rs_ratio)]), FromInt(RsBase))]

\* rs_normalized = (rs_ratio / rs_ratio.iloc[0]) * 100
RsNormalized(rs_ratio) ==
    [i \in 1..Len(rs_ratio) |->
        RMul(RDiv(rs_ratio[i], rs_ratio[1]), FromInt(RsBase))]

\* a mutant: the test made strict
IsNewHighStrict(current_rs, max_rs) ==
    RGt(current_rs, RMul(max_rs, Rat(NewHighPct, 100)))

\* is_new_high = current_rs >= (max_rs * 0.98)
IsNewHigh(current_rs, max_rs) ==
    RGeq(current_rs, RMul(max_rs, Rat(NewHighPct, 100)))

\* a mutant: the fallback is the first value of the window
Rs20DaysAgoFirst(rs_normalized, current_rs) ==
    IF Len(rs_normalized) > RsLookback
    THEN ILocNeg(rs_normalized, RsLookback)
    ELSE rs_normalized[1]

\* rs_20_days_ago = float(rs_normalized.iloc[-20]) if len(rs_normalized) > 20
\*                  else current_rs
Rs20DaysAgo(rs_normalized, current_rs) ==
    IF Len(rs_normalized) > RsLookback
    THEN ILocNeg(rs_normalized, RsLookback)
    ELSE current_rs

\* rs_trend = "Outperforming" if current_rs > rs_20_days_ago else "Underperforming"
RsTrend(current_rs, rs_20_days_ago) ==
    IF RGt(current_rs, rs_20_days_ago) THEN "Outperforming" ELSE "Underperforming"

\* the locals of calculate_relative_strength when it returns, or the IndexError
\* raised when rs_ratio.iloc[0] is taken of an empty series
RsLocals(stock, nifty) ==
    LET common_dates  == IndexIntersection(stock, nifty)
        stock_aligned == CloseAt(stock, common_dates)
        nifty_aligned == CloseAt(nifty, common_dates)
        rs_ratio      == RsRatio(stock_aligned, nifty_aligned)
    IN  IF Len(common_dates) = 0 THEN Raised("IndexError")
        ELSE LET rs_normalized  == RsNormalized(rs_ratio)
                 current_rs     == rs_normalized[Len(rs_normalized)]
                 max_rs         == SeriesMax(rs_normalized)
                 rs_20_days_ago == Rs20DaysAgo(rs_normalized, current_rs)
             IN  [common_dates   |-> common_dates,
                  rs_normalized  |-> rs_normalized,
                  current_rs     |-> current_rs,
                  max_rs         |-> max_rs,
                  is_new_high    |-> IsNewHigh(current_rs, max_rs),
                  rs_20_days_ago |-> rs_20_days_ago,
                  rs_trend       |-> RsTrend(current_rs, rs_20_days_ago)]

\* a mutant: an empty window answered with a neutral result
calculate_relative_strength_neutral(stock, nifty) ==
    LET l == RsLocals(stock, nifty)
    IN  IF l = Raised("IndexError")
        THEN [current_rs |-> 10000, max_rs |-> 10000, is_new_high |-> FALSE,
              trend |-> "Underperforming", vs_nifty_percent |-> 0]
        ELSE [current_rs       |-> Round2(l.current_rs),
              max_rs           |-> Round2(l.max_rs),
              is_new_high      |-> l.is_new_high,
              trend            |-> l.rs_trend,
              vs_nifty_percent |->
                  Round2(RMul(RSub(RDiv(l.current_rs, FromInt(100)), FromInt(1)),
                              FromInt(100)))]

\* the dict calculate_relative_strength returns (numbers in hundredths)
calculate_relative_strength(stock, nifty) ==
    LET l == RsLocals(stock, nifty)
    IN  IF l = Raised("IndexError") THEN l
        ELSE [current_rs       |-> Round2(l.current_rs),
              max_rs           |-> Round2(l.max_rs),
              is_new_high      |-> l.is_new_high,
              trend            |-> l.rs_trend,
              vs_nifty_percent |->
                  Round2(RMul(RSub(RDiv(l.current_rs, FromInt(100)), FromInt(1)),
                              FromInt(100)))]

\* get_relative_strength_score, after the two fetches
get_relative_strength_score(stock, nifty) ==
    IF stock = None \/ nifty = None
    THEN [error |-> "Unable to fetch data"]
    ELSE calculate_relative_strength(stock, nifty)

----------------------------------------------------------------------------
(* Input frames *)

\* a frame of the given closes and volumes on consecutive dates from first
MkFrame(closes, volumes, first) ==
    [bars |-> [i \in 1..Len(closes) |->
        [Date |-> first + i - 1, Close |-> closes[i], Volume |-> volumes[i]]]]

\* n closes: base everywhere, pv at position p, last at the end
Shape(n, base, p, pv, last) ==
    [i \in 1..n |-> IF i = n THEN last ELSE IF i = p THEN pv ELSE base]

Flat(n, v) == [i \in 1..n |-> v]

RsCloses == {9799, 9800, 10000}

\* stock frames of the relative-strength runs: 1..MaxBars bars from date 1
RsStockFrames ==
    { MkFrame(Shape(n, base, p, pv, last), Flat(n, 1), 1) :
        n \in 1..MaxBars, base \in {9800, 10000}, p \in 1..MaxBars,
        pv \in {9799, 10000}, last \in RsCloses }

\* benchmark frames: every date, a doubled first close, a late start,
\* no bars, no common date
RsNiftyFrames ==
    { MkFrame(Flat(MaxBars, 1), Flat(MaxBars, 1), 1),
      MkFrame(Shape(MaxBars, 1, 1, 2, 1), Flat(MaxBars, 1), 1),
      MkFrame(Flat(MaxBars - 1, 1), Flat(MaxBars - 1, 1), 2),
      [bars |-> << >>],
      MkFrame(Flat(2, 1), Flat(2, 1), MaxBars + 1) }

NoLib == [none |-> TRUE]

InitRS ==
    /\ WebIdle
    /\ stock_df \in RsStockFrames \cup {None}
    /\ nifty_df \in RsNiftyFrames \cup {None}
    /\ lib = NoLib
    /\ months = 1
    /\ rs_result = Pending
    /\ rs_locals = Pending
    /\ score_result = Pending
    /\ score_locals = Pending
    /\ proj_result = Pending
    /\ sma_result = Pending
    /\ batch = Pending
    /\ calls = Pending

\* one call of get_relative_strength_score
RelativeStrength ==
    /\ rs_result = Pending
    /\ rs_result' = get_relative_strength_score(stock_df, nifty_df)
    /\ rs_locals' = IF stock_df = None \/ nifty_df = None
                    THEN Pending
                    ELSE RsLocals(stock_df, nifty_df)
    /\ UNCHANGED webVars
    /\ UNCHANGED <<stock_df, nifty_df, lib, months, score_result, score_locals,
                   proj_result, sma_result, batch, calls>>

NextRS == RelativeStrength

SpecRS == InitRS /\ [][NextRS]_vars

----------------------------------------------------------------------------
(* services/indicators.py                                                  *)
(* `l` holds what the ta indicator classes and pandas deliver for the      *)
(* frame: the last EMA, RSI, ADX and ATR values, the last MACD and signal  *)
(* values (in thousandths), the SMA series and the annualised volatility.  *)

\* the longest indicator window, in bars: EMA(50) and SMA(50)
LongestWindow == 50
\* the trailing window of the volume ratio, in bars
VolumeWindow == 20
\* the bars between the two SMA values compared
SmaLookback == 5

calculate_ema(l) ==
    [ema_10 |-> l.ema_10, ema_20 |-> l.ema_20, ema_50 |-> l.ema_50]

calculate_rsi(l) == l.rsi

\* macd.macd_diff() is the MACD line minus the signal line
calculate_macd(l) ==
    [macd       |-> IF l.macd_line = NaN THEN NaN
                    ELSE Round2(Rat(l.macd_line, 1000)),
     signal     |-> IF l.signal_line = NaN THEN NaN
                    ELSE Round2(Rat(l.signal_line, 1000)),
     histogram  |-> IF l.macd_line = NaN \/ l.signal_line = NaN THEN NaN
                    ELSE Round2(Rat(l.macd_line - l.signal_line, 1000)),
     is_bullish |-> FGt(l.macd_line, l.signal_line)]

calculate_adx(l) == l.adx

calculate_atr(l) == l.atr

calculate_volatility(l) == l.volatility

calculate_sma(l) ==
    LET sma_values  == l.sma_values
        current_sma == sma_values[Len(sma_values)]
        prev_sma    == IF Len(sma_values) > SmaLookback
                       THEN ILocNeg(sma_values, SmaLookback)
                       ELSE current_sma
    IN  [value |-> current_sma, is_rising |-> FGt(current_sma, prev_sma)]

Volumes(df) == [i \in 1..Len(df.bars) |-> df.bars[i].Volume]

\* current volume / mean of the trailing volumes, 1.0 when that mean is 0
calculate_volume_ratio(df) ==
    LET window         == Tail_(Volumes(df), VolumeWindow)
        total          == SumSeq(window)
        current_volume == df.bars[Len(df.bars)].Volume
    IN  IF total > 0 THEN Rat(current_volume * Len(window), total)
        ELSE FromInt(1)

calculate_all_indicators(df, l) ==
    [emas         |-> calculate_ema(l),
     rsi          |-> calculate_rsi(l),
     macd         |-> calculate_macd(l),
     adx          |-> calculate_adx(l),
     atr          |-> calculate_atr(l),
     volatility   |-> calculate_volatility(l),
     sma_50       |-> calculate_sma(l),
     volume_ratio |-> calculate_volume_ratio(df)]

----------------------------------------------------------------------------
(* Runs of calculate_sma on SMA series of every shape *)

\* length of the longest SMA series
MaxSma == 7

SmaValues == {NaN, 9800, 9810}

\* the series sma_indicator() delivers: nan up to the first full window,
\* numbers from there on
SmaSeries ==
    { s \in UNION { [1..n -> SmaValues] : n \in 1..MaxSma } :
        \A i \in 1..Len(s) : s[i] = NaN => \A j \in 1..i : s[j] = NaN }

InitSMA ==
    /\ WebIdle
    /\ stock_df = None
    /\ nifty_df = None
    /\ lib \in [sma_values : SmaSeries]
    /\ months = 1
    /\ rs_result = Pending
    /\ rs_locals = Pending
    /\ score_result = Pending
    /\ score_locals = Pending
    /\ proj_result = Pending
    /\ sma_result = Pending
    /\ batch = Pending
    /\ calls = Pending

\* one call of calculate_sma
Sma ==
    /\ sma_result = Pending
    /\ sma_result' = calculate_sma(lib)
    /\ UNCHANGED webVars
    /\ UNCHANGED <<stock_df, nifty_df, lib, months, rs_result, rs_locals,
                   score_result, score_locals, proj_result, batch, calls>>

NextSMA == Sma

SpecSMA == InitSMA /\ [][NextSMA]_vars

----------------------------------------------------------------------------
(* services/scoring.py                                                     *)
(* The locals `score` and `explanation` are the record                     *)
(* [score, explanation]; explanation is the dict as the sequence of its    *)
(* <<key, text>> items in insertion order.                                 *)

\* explanation[key] = text: a new key is appended, a present key keeps its place
DictSet(d, key, text) ==
    IF \E i \in 1..Len(d) : d[i][1] = key
    THEN [i \in 1..Len(d) |-> IF d[i][1] = key THEN <<key, text>> ELSE d[i]]
    ELSE Append(d, <<key, text>>)

\* a mutant: a rule that awards nothing leaves no entry
AddOnlyMatched(st, points, key, text) ==
    IF points = 0 THEN st
    ELSE [score       |-> st.score + points,
          explanation |-> DictSet(st.explanation, key, text)]

\* score += points; explanation[key] = text
Add(st, points, key, text) ==
    [score |-> st.score + points, explanation |-> DictSet(st.explanation, key, text)]

\* a mutant: the penalty applied without the floor
PenaliseNoFloor(st, penalty, key, text) ==
    [score       |-> st.score + penalty,
     explanation |-> DictSet(st.explanation, key, text)]

\* score = max(0, score + penalty); explanation[key] = text
Penalise(st, penalty, key, text) ==
    [score       |-> Max(0, st.score + penalty),
     explanation |-> DictSet(st.explanation, key, text)]

\* a mutant: the tiers of rule 1 added together
RuleRSCumulative(st, rs) ==
    LET a == IF rs.is_new_high
             THEN Add(st, 20, "rs_new_high", "+20 (RS at new high vs NIFTY)")
             ELSE st
    IN  IF rs.trend = "Outperforming"
        THEN Add(a, 12, "rs_outperforming", "+12 (Outperforming NIFTY)")
        ELSE IF rs.is_new_high THEN a
        ELSE Add(a, 0, "rs_underperforming", "0 (Underperforming NIFTY)")

\* 1. Relative Strength vs NIFTY (20 points); rs is the dict returned
RuleRS(st, rs) ==
    IF rs.is_new_high
    THEN Add(st, 20, "rs_new_high", "+20 (RS at new high vs NIFTY)")
    ELSE IF rs.trend = "Outperforming"
    THEN Add(st, 12, "rs_outperforming", "+12 (Outperforming NIFTY)")
    ELSE Add(st, 0, "rs_underperforming", "0 (Underperforming NIFTY)")

\* a mutant: a missing benchmark scored as the 0 tier
ApplyRSDefaultZero(st, nifty, rs) ==
    IF nifty # None THEN RuleRS(st, rs)
    ELSE Add(st, 0, "rs_underperforming", "0 (Underperforming NIFTY)")

\* if nifty_df is not None: rule 1 is applied, else skipped
ApplyRS(st, nifty, rs) ==
    IF nifty # None THEN RuleRS(st, rs) ELSE st

\* 2. EMA Alignment (15 points)
RuleEMA(st, emas) ==
    IF FGt(emas.ema_10, emas.ema_20) /\ FGt(emas.ema_20, emas.ema_50)
    THEN Add(st, 15, "ema_alignment", "+15 (Strong uptrend - EMA 10 > 20 > 50)")
    ELSE IF FGt(emas.ema_10, emas.ema_20)
    THEN Add(st, 8, "ema_partial", "+8 (Short-term uptrend)")
    ELSE Add(st, 0, "ema_weak", "0 (No clear uptrend)")

\* 3. RSI (12 points)
RuleRSI(st, rsi) ==
    IF FLe(55, rsi) /\ FLe(rsi, 75)
    THEN Add(st, 12, "rsi_strong", "+12 (RSI in strong zone 55-75)")
    ELSE IF FLe(45, rsi) /\ FLt(rsi, 55)
    THEN Add(st, 6, "rsi_moderate", "+6 (RSI neutral)")
    ELSE IF FGt(rsi, 80)
    THEN Add(st, 0, "rsi_overbought", "0 (RSI overbought - caution)")
    ELSE Add(st, 0, "rsi_weak", "0 (RSI weak)")

\* 4. MACD (10 points)
RuleMACD(st, macd) ==
    IF macd.is_bullish /\ FGt(macd.histogram, 0)
    THEN Add(st, 10, "macd_bullish", "+10 (MACD bullish crossover)")
    ELSE IF macd.is_bullish
    THEN Add(st, 5, "macd_positive", "+5 (MACD above signal)")
    ELSE Add(st, 0, "macd_bearish", "0 (MACD bearish)")

\* 5. ADX Trend Strength (10 points)
RuleADX(st, adx) ==
    IF FGe(adx, 25)
    THEN Add(st, 10, "adx_strong", "+10 (Strong trend - ADX >= 25)")
    ELSE IF FGe(adx, 20)
    THEN Add(st, 5, "adx_moderate", "+5 (Moderate trend)")
    ELSE Add(st, 0, "adx_weak", "0 (Weak trend)")

\* 6. Volume (8 points)
RuleVolume(st, vol_ratio) ==
    IF RGt(vol_ratio, Rat(15, 10))
    THEN Add(st, 8, "volume_high", "+8 (High volume confirmation)")
    ELSE IF RGt(vol_ratio, FromInt(1))
    THEN Add(st, 4, "volume_moderate", "+4 (Above average volume)")
    ELSE Add(st, 0, "volume_low", "0 (Low volume)")

\* a mutant: a rising SMA earns nothing
RuleSMANoPoints(st, sma) ==
    IF sma.is_rising
    THEN Add(st, 0, "sma_rising", "+8 (50-SMA rising)")
    ELSE Add(st, 0, "sma_falling", "0 (50-SMA not rising)")

\* 7. SMA 50 Rising (8 points)
RuleSMA(st, sma) ==
    IF sma.is_rising
    THEN Add(st, 8, "sma_rising", "+8 (50-SMA rising)")
    ELSE Add(st, 0, "sma_falling", "0 (50-SMA not rising)")

\* a mutant: the floor missing from the moderate penalty
RuleVolatilityModerateUnfloored(st, volatility) ==
    IF FGt(volatility, 50)
    THEN Penalise(st, -10, "volatility_high", "-10 (High volatility penalty)")
    ELSE IF FGt(volatility, 35)
    THEN Add(st, -5, "volatility_moderate", "-5 (Moderate volatility penalty)")
    ELSE Add(st, 0, "volatility_low", "+0 (Acceptable volatility)")

\* 8. Volatility Penalty (up to -10 points)
RuleVolatility(st, volatility) ==
    IF FGt(volatility, 50)
    THEN Penalise(st, -10, "volatility_high", "-10 (High volatility penalty)")
    ELSE IF FGt(volatility, 35)
    THEN Penalise(st, -5, "volatility_moderate", "-5 (Moderate volatility penalty)")
    ELSE Add(st, 0, "volatility_low", "+0 (Acceptable volatility)")

\* 9. Price above EMAs (7 points)
RulePrice(st, current_price, emas) ==
    IF FGt(current_price, emas.ema_50)
    THEN Add(st, 7, "price_above_ema", "+7 (Price > 50 EMA)")
    ELSE IF FGt(current_price, emas.ema_20)
    THEN Add(st, 3, "price_above_ema", "+3 (Price > 20 EMA)")
    ELSE Add(st, 0, "price_below_ema", "0 (Price below key EMAs)")

\* 10. Liquidity (10 points)
RuleLiquidity(st, liquidity) ==
    IF liquidity > 10000000
    THEN Add(st, 10, "liquidity", "+10 (High liquidity)")
    ELSE IF liquidity > 5000000
    THEN Add(st, 5, "liquidity", "+5 (Moderate liquidity)")
    ELSE Add(st, 0, "liquidity", "0 (Low liquidity)")

\* a mutant: Bullish from 65 points
TrendOfFrom65(score) ==
    IF score >= 65 THEN "Bullish"
    ELSE IF score >= 40 THEN "Neutral"
    ELSE "Weak"

\* a mutant: the boundaries excluded from the higher label
TrendOfStrict(score) ==
    IF score > 70 THEN "Bullish"
    ELSE IF score > 40 THEN "Neutral"
    ELSE "Weak"

\* Determine trend
TrendOf(score) ==
    IF score >= 70 THEN "Bullish"
    ELSE IF score >= 40 THEN "Neutral"
    ELSE "Weak"


\* the cap of the returned strength_score
ScoreCap == 100

LastBar(df) == df.bars[Len(df.bars)]

\* the locals of calculate_strength_score after rule 10 (stock is a frame):
\* steps[k] is <<score, explanation>> after rule k; the IndexError of
\* calculate_relative_strength propagates.  Each assignment of the function
\* is one Let: the value is computed once and named.
ScoreLocals(stock, nifty, l) ==
    Let(calculate_all_indicators(stock, l), LAMBDA indicators :
    Let(IF nifty # None THEN calculate_relative_strength(stock, nifty) ELSE None,
        LAMBDA rs :
    IF rs = Raised("IndexError") THEN rs
    ELSE
    Let(ApplyRS([score |-> 0, explanation |-> << >>], nifty, rs), LAMBDA st1 :
    Let(RuleEMA(st1, indicators.emas), LAMBDA st2 :
    Let(RuleRSI(st2, indicators.rsi), LAMBDA st3 :
    Let(RuleMACD(st3, indicators.macd), LAMBDA st4 :
    Let(RuleADX(st4, indicators.adx), LAMBDA st5 :
    Let(RuleVolume(st5, indicators.volume_ratio), LAMBDA st6 :
    Let(RuleSMA(st6, indicators.sma_50), LAMBDA st7 :
    Let(RuleVolatility(st7, indicators.volatility), LAMBDA st8 :
    Let(LastBar(stock).Close, LAMBDA current_price :
    Let(RulePrice(st8, current_price, indicators.emas), LAMBDA st9 :
    Let(current_price * LastBar(stock).Volume, LAMBDA liquidity :
    Let(RuleLiquidity(st9, liquidity), LAMBDA st10 :
        [rs            |-> rs,
         indicators    |-> indicators,
         current_price |-> current_price,
         liquidity     |-> liquidity,
         steps         |-> <<st1, st2, st3, st4, st5, st6, st7, st8, st9, st10>>]
    ))))))))))))))

\* the dict calculate_strength_score returns from the locals loc (symbol and
\* timestamp left out; rounded numbers in hundredths)
ScoreReturn(loc) ==
        LET score == loc.steps[10].score
            ind   == loc.indicators
        IN  [strength_score |-> Min(ScoreCap, score),
             trend          |-> TrendOf(score),
             explanation    |-> loc.steps[10].explanation,
             indicators     |->
                 [emas          |-> ind.emas,
                  rsi           |-> FRound2(ind.rsi),
                  macd          |-> ind.macd,
                  adx           |-> FRound2(ind.adx),
                  atr           |-> FRound2(ind.atr),
                  volatility    |-> FRound2(ind.volatility),
                  sma_50        |-> FRound2(ind.sma_50.value),
                  volume_ratio  |-> Round2(ind.volume_ratio),
                  current_price |-> Round2(FromInt(loc.current_price))]]

\* one run of calculate_strength_score: what it returns or raises, and its
\* locals at the return
ScoreRun(stock, nifty, l) ==
    IF stock = None
    THEN [result |-> [error |-> "Unable to fetch stock data"], locals |-> Pending]
    ELSE Let(ScoreLocals(stock, nifty, l), LAMBDA loc :
             IF loc = Raised("IndexError")
             THEN [result |-> loc, locals |-> Pending]
             ELSE [result |-> ScoreReturn(loc),
                   locals |-> [rs            |-> loc.rs,
                               indicators    |-> loc.indicators,
                               current_price |-> loc.current_price,
                               liquidity     |-> loc.liquidity,
                               subtotals     |-> [k \in 1..10 |-> loc.steps[k].score]]])

calculate_strength_score(stock, nifty, l) == ScoreRun(stock, nifty, l).result

----------------------------------------------------------------------------
(* Inputs of the scoring runs: every tier of every rule *)

\* the bars of a series that fills every indicator window
FullBars == LongestWindow

\* a stock frame of FullBars bars: close p throughout, volume b before the
\* last bar and v on it
ScoreStockFrames ==
    { MkFrame(Flat(FullBars, p), Shape(FullBars, b, 0, b, v), 1) :
        p \in {9700, 9850}, b \in {300, 450, 1200}, v \in {515, 1100} }

\* the benchmark frames hold the last MaxBars dates of the stock frames
NiftyFirst == FullBars - MaxBars + 1

\* benchmark closes: 100, but a at the bar read by iloc[-20] and b at the bar
\* before the last
NiftyCloses(a, b) ==
    [i \in 1..MaxBars |->
        IF i = MaxBars - RsLookback + 1 THEN a
        ELSE IF i = MaxBars - 1 THEN b
        ELSE 100]

\* RS at its high and not above / above the value read 20 back; RS off its
\* high and above / not above that value
ScoreNiftyFrames ==
    { MkFrame(NiftyCloses(100, 100), Flat(MaxBars, 1), NiftyFirst),
      MkFrame(NiftyCloses(200, 100), Flat(MaxBars, 1), NiftyFirst),
      MkFrame(NiftyCloses(200, 50), Flat(MaxBars, 1), NiftyFirst),
      MkFrame(NiftyCloses(100, 50), Flat(MaxBars, 1), NiftyFirst) }

ScoreLibs ==
    [ema_10      : {9700, 9900},
     ema_20      : {9800},
     ema_50      : {9700, 9900},
     rsi         : {44, 45, 75, 81},
     macd_line   : {-5, 4, 10},
     signal_line : {0},
     adx         : {19, 20, 25},
     atr         : {150},
     volatility  : {35, 50, 51},
     sma_values  : {<<9800, 9800, 9800, 9800, 9800, 9810>>,
                    <<9800, 9800, 9800, 9800, 9800, 9800>>}]

\* the calls that return before a rule is read (no stock frame, or a
\* benchmark frame without bars) are run with one indicator record
OneLib == CHOOSE l \in ScoreLibs : TRUE

InitScore ==
    /\ WebIdle
    /\ \/ /\ stock_df \in ScoreStockFrames
          /\ nifty_df \in ScoreNiftyFrames \cup {None}
          /\ lib \in ScoreLibs
       \/ /\ stock_df \in ScoreStockFrames
          /\ nifty_df = [bars |-> << >>]
          /\ lib = OneLib
       \/ /\ stock_df = None
          /\ nifty_df \in ScoreNiftyFrames \cup {None, [bars |-> << >>]}
          /\ lib = OneLib
    /\ months = 1
    /\ rs_result = Pending
    /\ rs_locals = Pending
    /\ score_result = Pending
    /\ score_locals = Pending
    /\ proj_result = Pending
    /\ sma_result = Pending
    /\ batch = Pending
    /\ calls = Pending

\* one call of calculate_strength_score
Score ==
    /\ score_result = Pending
    /\ \E run \in {ScoreRun(stock_df, nifty_df, lib)} :
           /\ score_result' = run.result
           /\ score_locals' = run.locals
    /\ UNCHANGED webVars
    /\ UNCHANGED <<stock_df, nifty_df, lib, months, rs_result, rs_locals,
                   proj_result, sma_result, batch, calls>>

NextScore == Score

SpecScore == InitScore /\ [][NextScore]_vars

----------------------------------------------------------------------------
(* services/projection.py *)

\* the drift per month of an upward trend, in hundredths (0.02)
UpDriftPct == 2
\* the drift per month of a downward trend, in hundredths (0.01)
DownDriftPct == 1

\* trend_direction of calculate_projection
TrendDirection(ema_10, ema_50) ==
    IF FGt(ema_10, ema_50) THEN "upward" ELSE "downward"

\* a mutant: equal EMAs taken as an upward trend
TrendMultiplierGeq(ema_10, ema_50, m) ==
    IF FGe(ema_10, ema_50)
    THEN RAdd(FromInt(1), RMul(Rat(UpDriftPct, 100), FromInt(m)))
    ELSE RSub(FromInt(1), RMul(Rat(DownDriftPct, 100), FromInt(m)))

\* trend_multiplier: 1.0 + (0.02 * months), or 1.0 - (0.01 * months)
TrendMultiplier(ema_10, ema_50, m) ==
    IF FGt(ema_10, ema_50)
    THEN RAdd(FromInt(1), RMul(Rat(UpDriftPct, 100), FromInt(m)))
    ELSE RSub(FromInt(1), RMul(Rat(DownDriftPct, 100), FromInt(m)))

\* a mutant: the boundaries 5 and 2 given to the higher label
ConfidenceGeq(ema_10, ema_50) ==
    IF ema_10 = NaN \/ ema_50 = NaN THEN "Low"
    ELSE
    LET ema_diff_percent ==
            RMul(RAbs(RDiv(FromInt(ema_10 - ema_50), FromInt(ema_50))), FromInt(100))
    IN  IF RGeq(ema_diff_percent, FromInt(5)) THEN "Moderate"
        ELSE IF RGeq(ema_diff_percent, FromInt(2)) THEN "Low-Moderate"
        ELSE "Low"

\* confidence from ema_diff_percent = abs((ema_10 - ema_50) / ema_50) * 100
\* (nan when an EMA is nan: both tests are then False)
Confidence(ema_10, ema_50) ==
    IF ema_10 = NaN \/ ema_50 = NaN THEN "Low"
    ELSE
    LET ema_diff_percent ==
            RMul(RAbs(RDiv(FromInt(ema_10 - ema_50), FromInt(ema_50))), FromInt(100))
    IN  IF RGt(ema_diff_percent, FromInt(5)) THEN "Moderate"
        ELSE IF RGt(ema_diff_percent, FromInt(2)) THEN "Low-Moderate"
        ELSE "Low"

\* the dict calculate_projection returns (symbol and timestamp left out;
\* rounded numbers in hundredths)
calculate_projection(df, l, m) ==
    IF df = None THEN [error |-> "Unable to fetch data"]
    ELSE
    LET current_price    == FromInt(LastBar(df).Close)
        emas             == calculate_ema(l)
        ema_10           == emas.ema_10
        ema_50           == emas.ema_50
        atr              == FromInt(calculate_atr(l))
        atr_percent      == RMul(RDiv(atr, current_price), FromInt(100))
        trend_direction  == TrendDirection(ema_10, ema_50)
        trend_multiplier == TrendMultiplier(ema_10, ema_50, m)
        projected_mid    == RMul(current_price, trend_multiplier)
        volatility_range ==
            RMul(RMul(projected_mid, RDiv(atr_percent, FromInt(100))), FromInt(m))
        projected_low    == RSub(projected_mid, volatility_range)
        projected_high   == RAdd(projected_mid, volatility_range)
    IN  [current_price   |-> Round2(current_price),
         projected_range |-> [low  |-> Round2(projected_low),
                              mid  |-> Round2(projected_mid),
                              high |-> Round2(projected_high)],
         timeframe       |-> m,
         confidence      |-> Confidence(ema_10, ema_50),
         basis           |-> trend_direction]

\* frames of the projection runs: FullBars bars, the latest close positive
ProjStockFrames ==
    { MkFrame(Shape(FullBars, 100, 0, 100, p), Flat(FullBars, 1), 1) :
        p \in {100, 9850} }

ProjLibs ==
    [ema_10 : {94, 95, 98, 100, 102, 103, 105, 106},
     ema_20 : {100},
     ema_50 : {100},
     atr    : {0, 1, 150}]

InitProj ==
    /\ WebIdle
    /\ stock_df \in ProjStockFrames \cup {None}
    /\ nifty_df = None
    /\ lib \in ProjLibs
    /\ months \in 1..MaxMonths
    /\ rs_result = Pending
    /\ rs_locals = Pending
    /\ score_result = Pending
    /\ score_locals = Pending
    /\ proj_result = Pending
    /\ sma_result = Pending
    /\ batch = Pending
    /\ calls = Pending

\* one call of calculate_projection
Project ==
    /\ proj_result = Pending
    /\ proj_result' = calculate_projection(stock_df, lib, months)
    /\ UNCHANGED webVars
    /\ UNCHANGED <<stock_df, nifty_df, lib, months, rs_result, rs_locals,
                   score_result, score_locals, sma_result, batch, calls>>

NextProj == Project

SpecProj == InitProj /\ [][NextProj]_vars

----------------------------------------------------------------------------
(* Scoring of a steadily rising series: closes strictly increasing over     *)
(* 60 bars, EMA10 > EMA20 > EMA50 below the latest close, RSI 65, ADX 30,   *)
(* volume ratio 2.0, volatility 10; the MACD lines, the benchmark and the   *)
(* traded volume vary.                                                      *)

ScenarioBars == LongestWindow + 10

\* closes rising by `step` a bar up to 9590
RisingCloses(step) ==
    [i \in 1..ScenarioBars |-> 9590 - step * (ScenarioBars - i)]

\* the 50-bar SMA of RisingCloses(step): nan for the first 49 bars
RisingSma(step) ==
    [i \in 1..ScenarioBars |->
        IF i < LongestWindow THEN NaN
        ELSE 9590 - step * (ScenarioBars - i) - (step * (LongestWindow - 1)) \div 2]

\* volumes u before the last bar and 19u/9 on it: a volume ratio of 2.0
ScenarioStockFrames ==
    { MkFrame(RisingCloses(step),
              Shape(ScenarioBars, 9 * u, 0, 9 * u, 19 * u), 1) :
        step \in {2, 10}, u \in {5, 50, 100} }

ScenarioNiftyFrames ==
    { MkFrame(NiftyCloses(a, b), Flat(MaxBars, 1), ScenarioBars - MaxBars + 1) :
        a \in {100, 200}, b \in {50, 100} }

ScenarioLibs ==
    { [ema_10 |-> 9590 - 5 * step, ema_20 |-> 9590 - 10 * step,
       ema_50 |-> 9590 - 25 * step, rsi |-> 65, macd_line |-> m,
       signal_line |-> 0, adx |-> 30, atr |-> 150, volatility |-> 10,
       sma_values |-> RisingSma(step)] :
        step \in {2, 10}, m \in {-5, 4, 10} }

InitScenario ==
    /\ WebIdle
    /\ stock_df \in ScenarioStockFrames
    /\ nifty_df \in ScenarioNiftyFrames \cup {None}
    /\ lib \in ScenarioLibs
    /\ months = 1
    /\ rs_result = Pending
    /\ rs_locals = Pending
    /\ score_result = Pending
    /\ score_locals = Pending
    /\ proj_result = Pending
    /\ sma_result = Pending
    /\ batch = Pending
    /\ calls = Pending

NextScenario == Score

SpecScenario == InitScenario /\ [][NextScenario]_vars

----------------------------------------------------------------------------
(* main.py: analyze_watchlist and analyze_specific_watchlist               *)
(* `market` gives, per symbol, how its three calls end in this request:    *)
(* score is what calculate_strength_score returns (its strength_score, or   *)
(* an error dict) or raises; projection and chart likewise.  The loop       *)
(* state is [analysed, qualifying_stocks]: the symbols whose try block was  *)
(* entered, and the list built so far.                                      *)

\* default of the query parameter threshold
DefaultThreshold == 65

Failed(outcome) == "raised" \in DOMAIN outcome

\* projection if "error" not in projection else None
OrNone(outcome) == IF "error" \in DOMAIN outcome THEN None ELSE outcome

\* one iteration of the for loop: the try block and its except clause
AnalyzeItem(symbol, market, threshold, acc) ==
    LET analysis == market[symbol].score
        seen     == [acc EXCEPT !.analysed = Append(@, symbol)]
    IN  IF Failed(analysis) THEN seen
        ELSE IF "error" \notin DOMAIN analysis
                /\ analysis.strength_score >= threshold
        THEN LET projection == market[symbol].projection
                 chart      == market[symbol].chart
             IN  IF Failed(projection) \/ Failed(chart) THEN seen
                 ELSE [seen EXCEPT !.qualifying_stocks =
                          Append(@, [symbol     |-> symbol,
                                     analysis   |-> analysis,
                                     projection |-> OrNone(projection),
                                     chart      |-> OrNone(chart)])]
        ELSE seen

\* a mutant: the first exception ends the loop
RECURSIVE AnalyzeLoopAbort(_, _, _, _)
AnalyzeLoopAbort(stocks, market, threshold, acc) ==
    IF stocks = << >> THEN acc
    ELSE IF Failed(market[Head(stocks)].score)
    THEN [acc EXCEPT !.analysed = Append(@, Head(stocks))]
    ELSE AnalyzeLoopAbort(Tail(stocks), market, threshold,
                          AnalyzeItem(Head(stocks), market, threshold, acc))

\* for item in watchlist["stocks"]: ...
RECURSIVE AnalyzeLoop(_, _, _, _)
AnalyzeLoop(stocks, market, threshold, acc) ==
    IF stocks = << >> THEN acc
    ELSE AnalyzeLoop(Tail(stocks), market, threshold,
                     AnalyzeItem(Head(stocks), market, threshold, acc))

\* the place of x in a list sorted by strength_score descending: behind the
\* entries that are not below it (list.sort is stable, also with reverse=True)
RECURSIVE InsertByScore(_, _)
InsertByScore(x, sorted) ==
    IF sorted = << >> THEN <<x>>
    ELSE IF Head(sorted).analysis.strength_score >= x.analysis.strength_score
    THEN <<Head(sorted)>> \o InsertByScore(x, Tail(sorted))
    ELSE <<x>> \o sorted

\* qualifying_stocks.sort(key=lambda x: x["analysis"]["strength_score"],
\*                       reverse=True)
RECURSIVE SortByScore(_)
SortByScore(l) ==
    IF l = << >> THEN << >>
    ELSE InsertByScore(l[Len(l)], SortByScore(SubSeq(l, 1, Len(l) - 1)))

\* the loop, the sort and the response of either handler
AnalyzeAll(b) ==
    LET done == AnalyzeLoop(b.stocks, b.market, b.threshold,
                            [analysed |-> << >>, qualifying_stocks |-> << >>])
    IN  [b EXCEPT !.analysed = done.analysed,
                  !.response =
                      [qualifying_stocks |-> SortByScore(done.qualifying_stocks),
                       total_analyzed    |-> Len(b.stocks),
                       threshold         |-> b.threshold]]

EmptyResponse(b) ==
    [qualifying_stocks |-> << >>, total_analyzed |-> 0, threshold |-> b.threshold]

\* GET /watchlist/analyze
analyze_watchlist(b) ==
    IF ~b.found \/ b.stocks = << >>
    THEN [b EXCEPT !.response = EmptyResponse(b)]
    ELSE AnalyzeAll(b)

\* GET /watchlists/{watchlist_id}/analyze
analyze_specific_watchlist(b) ==
    IF ~b.found
    THEN [b EXCEPT !.response = Raised("HTTPException 404")]
    ELSE IF b.stocks = << >>
    THEN [b EXCEPT !.response = EmptyResponse(b)]
    ELSE AnalyzeAll(b)

----------------------------------------------------------------------------
(* Requests of the two handlers *)

Symbols == {"A", "B", "C"}

\* most symbols of a watchlist
MaxStocks == 3

\* the watchlists: up to MaxStocks different symbols in any order
Watchlists ==
    { w \in UNION { [1..n -> Symbols] : n \in 0..MaxStocks } :
        \A i, j \in 1..Len(w) : i # j => w[i] # w[j] }

Ok == [ok |-> TRUE]

ErrorDict == [error |-> "Unable to fetch data"]

\* how the calls for one symbol end: scoring fails, scores below, at or
\* above the threshold; above it, the projection or the chart may fail
SymbolOutcomes ==
    { [score |-> ErrorDict, projection |-> Ok, chart |-> Ok],
      [score |-> Raised("IndexError"), projection |-> Ok, chart |-> Ok],
      [score |-> [strength_score |-> 64], projection |-> Ok, chart |-> Ok],
      [score |-> [strength_score |-> 65], projection |-> Ok, chart |-> Ok],
      [score |-> [strength_score |-> 80], projection |-> Ok, chart |-> Ok],
      [score |-> [strength_score |-> 80], projection |-> ErrorDict, chart |-> Ok],
      [score |-> [strength_score |-> 80], projection |-> Raised("IndexError"),
       chart |-> Ok],
      [score |-> [strength_score |-> 65], projection |-> Ok,
       chart |-> Raised("ValueError")] }

InitBatch ==
    /\ WebIdle
    /\ stock_df = None
    /\ nifty_df = None
    /\ lib = NoLib
    /\ months = 3
    /\ rs_result = Pending
    /\ rs_locals = Pending
    /\ score_result = Pending
    /\ score_locals = Pending
    /\ proj_result = Pending
    /\ sma_result = Pending
    /\ calls = Pending
    /\ \E handler \in {"analyze_watchlist", "analyze_specific_watchlist"},
          found \in BOOLEAN, stocks \in Watchlists,
          market \in [Symbols -> SymbolOutcomes] :
            /\ ~found => stocks = << >>
            /\ batch = [handler   |-> handler,
                        found     |-> found,
                        stocks    |-> stocks,
                        threshold |-> DefaultThreshold,
                        market    |-> market,
                        analysed  |-> << >>,
                        response  |-> Pending]

AnalyzeWatchlist ==
    /\ batch.handler = "analyze_watchlist"
    /\ batch.response = Pending
    /\ batch' = analyze_watchlist(batch)
    /\ UNCHANGED webVars
    /\ UNCHANGED <<stock_df, nifty_df, lib, months, rs_result, rs_locals,
                   score_result, score_locals, proj_result, sma_result, calls>>

AnalyzeSpecificWatchlist ==
    /\ batch.handler = "analyze_specific_watchlist"
    /\ batch.response = Pending
    /\ batch' = analyze_specific_watchlist(batch)
    /\ UNCHANGED webVars
    /\ UNCHANGED <<stock_df, nifty_df, lib, months, rs_result, rs_locals,
                   score_result, score_locals, proj_result, sma_result, calls>>

NextBatch == AnalyzeWatchlist \/ AnalyzeSpecificWatchlist

SpecBatch == InitBatch /\ [][NextBatch]_vars

----------------------------------------------------------------------------
(* Several calls of calculate_strength_score and calculate_projection in    *)
(* progress at once.  calls.of[i] is the frame of call i: its fetched       *)
(* inputs, its position pc (0: at `indicators = ...`; k in 1..10: at rule   *)
(* k; 11: at the return; Returned) and its locals indicators, rs and        *)
(* st = [score, explanation]; calls.clock is datetime.utcnow().             *)

\* number of calls in progress
MaxCalls == 2

\* the position of a call that has returned or raised
Returned == 12

\* a mutant: the accumulator and the explanation dict are left over from
\* another call
ReusedAccumulator(cs, i) ==
    IF \E j \in DOMAIN cs : j # i /\ cs[j].pc \in 1..Returned /\ cs[j].st # None
    THEN cs[CHOOSE j \in DOMAIN cs :
                j # i /\ cs[j].pc \in 1..Returned /\ cs[j].st # None].st
    ELSE [score |-> 0, explanation |-> << >>]

\* score = 0; explanation = {}
NewAccumulator(cs, i) == [score |-> 0, explanation |-> << >>]

\* a mutant: every call works on the accumulator of the first call
LocalsOfFirst(cs, i) ==
    IF cs[1].st # None /\ cs[i].st # None
    THEN [cs[i] EXCEPT !.st = cs[1].st]
    ELSE cs[i]

\* the local variables of call i
Locals(cs, i) == cs[i]

\* rule k (2..10) applied to the locals of the call
RuleAt(k, c) ==
    LET indicators    == c.indicators
        current_price == LastBar(c.stock).Close
        liquidity     == current_price * LastBar(c.stock).Volume
    IN  CASE k = 2 -> RuleEMA(c.st, indicators.emas)
          [] k = 3 -> RuleRSI(c.st, indicators.rsi)
          [] k = 4 -> RuleMACD(c.st, indicators.macd)
          [] k = 5 -> RuleADX(c.st, indicators.adx)
          [] k = 6 -> RuleVolume(c.st, indicators.volume_ratio)
          [] k = 7 -> RuleSMA(c.st, indicators.sma_50)
          [] k = 8 -> RuleVolatility(c.st, indicators.volatility)
          [] k = 9 -> RulePrice(c.st, current_price, indicators.emas)
          [] k = 10 -> RuleLiquidity(c.st, liquidity)

\* "timestamp": datetime.utcnow() added to a returned dict
Stamp(r, now) == [timestamp |-> now] @@ r

\* the next statement of call i
Advance(cs, i, now) ==
    LET c == Locals(cs, i)
    IN  IF c.kind = "projection"
        THEN LET r == calculate_projection(c.stock, c.lib, c.months)
             IN  [c EXCEPT !.pc = Returned,
                           !.result = IF "error" \in DOMAIN r THEN r
                                      ELSE Stamp(r, now)]
        ELSE CASE c.pc = 0 ->
                   IF c.stock = None
                   THEN [c EXCEPT !.pc = Returned,
                                  !.result = [error |-> "Unable to fetch stock data"]]
                   ELSE [c EXCEPT !.pc = 1,
                                  !.indicators =
                                      calculate_all_indicators(c.stock, c.lib),
                                  !.st = NewAccumulator(cs, i)]
               [] c.pc = 1 ->
                   LET rs == IF c.nifty # None
                             THEN calculate_relative_strength(c.stock, c.nifty)
                             ELSE None
                   IN  IF rs = Raised("IndexError")
                       THEN [c EXCEPT !.pc = Returned, !.result = rs]
                       ELSE [c EXCEPT !.pc = 2, !.rs = rs,
                                      !.st = ApplyRS(c.st, c.nifty, rs)]
               [] c.pc \in 2..10 ->
                   [c EXCEPT !.pc = c.pc + 1, !.st = RuleAt(c.pc, c)]
               [] c.pc = 11 ->
                   [c EXCEPT !.pc = Returned,
                             !.result =
                                 Stamp(ScoreReturn(
                                     [steps         |-> [k \in 1..10 |-> c.st],
                                      indicators    |-> c.indicators,
                                      current_price |-> LastBar(c.stock).Close]),
                                     now)]

\* the inputs of a call: a high score with a benchmark, a low score without
\* one, no stock data, a benchmark frame without bars, and a projection
CallInputs ==
    LET stock == MkFrame(Flat(FullBars, 9850), Shape(FullBars, 300, 0, 300, 1100), 1)
        nifty == MkFrame(NiftyCloses(100, 50), Flat(MaxBars, 1), NiftyFirst)
        high  == [ema_10 |-> 9900, ema_20 |-> 9800, ema_50 |-> 9700, rsi |-> 75,
                  macd_line |-> 10, signal_line |-> 0, adx |-> 25, atr |-> 150,
                  volatility |-> 35,
                  sma_values |-> <<9800, 9800, 9800, 9800, 9800, 9810>>]
        low   == [ema_10 |-> 9700, ema_20 |-> 9800, ema_50 |-> 9900, rsi |-> 45,
                  macd_line |-> 4, signal_line |-> 0, adx |-> 20, atr |-> 150,
                  volatility |-> 51,
                  sma_values |-> <<9800, 9800, 9800, 9800, 9800, 9800>>]
    IN  { [kind |-> "score", stock |-> stock, nifty |-> nifty, lib |-> high],
          [kind |-> "score", stock |-> stock, nifty |-> None, lib |-> low],
          [kind |-> "score", stock |-> None, nifty |-> nifty, lib |-> low],
          [kind |-> "score", stock |-> stock, nifty |-> [bars |-> << >>],
           lib |-> high],
          [kind |-> "projection", stock |-> stock, nifty |-> None, lib |-> high] }

\* what the call returns when it runs alone
Alone(in) ==
    IF in.kind = "projection" THEN calculate_projection(in.stock, in.lib, 3)
    ELSE calculate_strength_score(in.stock, in.nifty, in.lib)

\* the frame of a call that has not started
NewCall(in) ==
    [kind |-> in.kind, stock |-> in.stock, nifty |-> in.nifty, lib |-> in.lib,
     months |-> 3, alone |-> Alone(in), pc |-> 0, indicators |-> None,
     rs |-> None, st |-> None, result |-> Pending]

InitCalls ==
    /\ WebIdle
    /\ stock_df = None
    /\ nifty_df = None
    /\ lib = NoLib
    /\ months = 3
    /\ rs_result = Pending
    /\ rs_locals = Pending
    /\ score_result = Pending
    /\ score_locals = Pending
    /\ proj_result = Pending
    /\ sma_result = Pending
    /\ batch = Pending
    /\ \E ins \in [1..MaxCalls -> CallInputs] :
           calls = [clock |-> 0, of |-> [i \in 1..MaxCalls |-> NewCall(ins[i])]]

\* call i executes its next statement; the clock moves on when a call returns
CallStep ==
    \E i \in 1..MaxCalls :
        /\ calls.of[i].pc # Returned
        /\ \E c \in {Advance(calls.of, i, calls.clock)} :
               calls' = [clock |-> IF c.pc = Returned THEN calls.clock + 1
                                   ELSE calls.clock,
                         of    |-> [calls.of EXCEPT ![i] = c]]
        /\ UNCHANGED webVars
        /\ UNCHANGED <<stock_df, nifty_df, lib, months, rs_result, rs_locals,
                       score_result, score_locals, proj_result, sma_result, batch>>

NextCalls == CallStep

SpecCalls == InitCalls /\ [][NextCalls]_vars

----------------------------------------------------------------------------
(* Scoring and projection of a series shorter than the longest window: the  *)
(* library delivers nan for EMA(50) and for every SMA(50) value.            *)

\* the bars of the short series: every window of 14, 20, 26 and 26 + 9 - 1
\* bars is filled, that of 50 bars is not
ShortBars == LongestWindow - 10

ShortStockFrames ==
    { MkFrame(Flat(ShortBars, p), Shape(ShortBars, 300, 0, 300, v), 1) :
        p \in {9700, 9850}, v \in {515, 1100} }

ShortLibs ==
    [ema_10      : {9700, 9900},
     ema_20      : {9800},
     ema_50      : {NaN},
     rsi         : {44, 75},
     macd_line   : {-5, 10},
     signal_line : {0},
     adx         : {19, 25},
     atr         : {150},
     volatility  : {35, 51},
     sma_values  : {Flat(ShortBars, NaN)}]

InitShort ==
    /\ WebIdle
    /\ stock_df \in ShortStockFrames
    /\ nifty_df \in {None, MkFrame(Flat(MaxBars, 100), Flat(MaxBars, 1),
                                    ShortBars - MaxBars + 1)}
    /\ lib \in ShortLibs
    /\ months \in {1, 3}
    /\ rs_result = Pending
    /\ rs_locals = Pending
    /\ score_result = Pending
    /\ score_locals = Pending
    /\ proj_result = Pending
    /\ sma_result = Pending
    /\ batch = Pending
    /\ calls = Pending

\* the two calls, in either order
NextShort == Score \/ Project

SpecShort == InitShort /\ [][NextShort]_vars

-----------------------------------------------------------------------------
(***************************************************************************)
(* main.py, the watchlist store.  The handlers are coroutines on one event *)
(* loop: a handler runs without interruption from one await to the next,   *)
(* and at every await other requests may run.  A request in progress is a  *)
(* record holding its handler, its arguments, the await it is suspended at *)
(* (pc) and its locals; one action models the code from one await to the   *)
(* next.  A MongoDB operation is atomic on its document.  A collection is  *)
(* the sequence of its documents in insertion order; _id is a number.  A   *)
(* document written without the field is_default has is_default = FALSE    *)
(* here (the handlers read it with .get("is_default"), which is falsy for  *)
(* a missing field).                                                       *)
(***************************************************************************)

\* the most requests in progress or served
MaxRequests == 2

\* HTTPException(status_code, detail)
HTTPException(status_code, detail) ==
    [status_code |-> status_code, detail |-> detail]

\* str.upper() on the symbols the requests carry
Upper(symbol) ==
    CASE symbol \in {"tcs", "Tcs", "TCS"} -> "TCS"
      [] symbol \in {"infy", "INFY"} -> "INFY"

\* the positions of the documents of a collection that match a filter
Matching(coll, Match(_)) == { i \in 1..Len(coll) : Match(coll[i]) }

\* collection.find_one(filter): the first matching document, or None
FindOne(coll, Match(_)) ==
    Let(Matching(coll, Match),
        LAMBDA found : IF found = {} THEN None
                       ELSE coll[CHOOSE i \in found : \A j \in found : i <= j])

\* collection.update_one(filter, update): the first matching document is
\* replaced by Update(document); no match changes nothing
UpdateOne(coll, Match(_), Update(_)) ==
    Let(Matching(coll, Match),
        LAMBDA found :
            IF found = {} THEN coll
            ELSE [coll EXCEPT ![CHOOSE i \in found : \A j \in found : i <= j]
                                  = Update(@)])

\* collection.delete_one(filter): the first matching document is removed
DeleteOne(coll, Match(_)) ==
    Let(Matching(coll, Match),
        LAMBDA found :
            IF found = {} THEN coll
            ELSE Let(CHOOSE i \in found : \A j \in found : i <= j,
                     LAMBDA at : SubSeq(coll, 1, at - 1)
                                 \o SubSeq(coll, at + 1, Len(coll))))

\* the _id MongoDB gives the next inserted document (never one in use)
NewId(coll) ==
    IF coll = << >> THEN 1
    ELSE 1 + (CHOOSE m \in { coll[i]._id : i \in 1..Len(coll) } :
                  \A i \in 1..Len(coll) : coll[i]._id <= m)

\* collection.insert_one(document)
InsertOne(coll, doc) == Append(coll, [doc EXCEPT !._id = NewId(coll)])

\* The analysis core at rest.
CoreIdle ==
    /\ stock_df = None
    /\ nifty_df = None
    /\ lib = NoLib
    /\ months = 1
    /\ rs_result = Pending
    /\ rs_locals = Pending
    /\ score_result = Pending
    /\ score_locals = Pending
    /\ proj_result = Pending
    /\ sma_result = Pending
    /\ batch = Pending
    /\ calls = Pending

\* the registered users: the one the requests come from, and another one
Users == << [_id |-> 1, email |-> "a@example.com"],
            [_id |-> 2, email |-> "b@example.com"] >>

CurrentUser == "a@example.com"

\* users_collection.find_one({"email": current_user})
FindUser(email) == FindOne(users_collection, LAMBDA u : u.email = email)

\* a stored watchlist
Watchlist(id, user_id, name, is_default, stocks) ==
    [_id |-> id, user_id |-> user_id, name |-> name,
     is_default |-> is_default, stocks |-> stocks]

\* one entry of the stocks array of a watchlist
StockEntry(symbol) == [symbol |-> symbol, added_at |-> utcnow]

-----------------------------------------------------------------------------
(* main.py add_stock_to_watchlists *)

\* return {"added_count": ..., "duplicate_count": ..., "symbol": ...}
AddStockReturn(r) ==
    [r EXCEPT !.pc = "done",
              !.response = [added_count     |-> r.added_count,
                            duplicate_count |-> r.duplicate_count,
                            symbol          |-> r.normalized_symbol]]

\* for watchlist_id in data.watchlist_ids: the next watchlist_id is taken
\* and the handler awaits find_one, or the loop is over and it returns
AddStockLoop(r) ==
    IF r.i < Len(r.data.watchlist_ids)
    THEN [r EXCEPT !.i = @ + 1, !.pc = "find_one"]
    ELSE AddStockReturn(r)

\* from the arrival of the request to the first await of the loop:
\* the user is read, the symbol normalised, the stock looked up
AddStockEnter(data, price_found) ==
    Let([handler |-> "add_stock_to_watchlists", data |-> data,
         pc |-> "start", user |-> FindUser(CurrentUser),
         normalized_symbol |-> Upper(data.symbol), i |-> 0,
         added_count |-> 0, duplicate_count |-> 0, response |-> None],
        LAMBDA r :
            IF ~price_found
            THEN [r EXCEPT !.pc = "done",
                           !.response = HTTPException(404, "Stock not found")]
            ELSE AddStockLoop(r))

\* the filter {"_id": ObjectId(watchlist_id), "user_id": str(user["_id"])}
OwnWatchlist(r, watchlist_id, doc) ==
    doc._id = watchlist_id /\ doc.user_id = r.user._id

\* [stock["symbol"].upper() for stock in watchlist_doc.get("stocks", [])]
ExistingSymbols(watchlist_doc) ==
    { Upper(watchlist_doc.stocks[j].symbol) :
          j \in 1..Len(watchlist_doc.stocks) }

\* find_one has answered: the duplicate check on the document it returned
AddStockChecked(r, watchlist_doc) ==
    IF watchlist_doc = None THEN AddStockLoop(r)
    ELSE IF r.normalized_symbol \in ExistingSymbols(watchlist_doc)
    THEN AddStockLoop([r EXCEPT !.duplicate_count = @ + 1])
    ELSE [r EXCEPT !.pc = "update_one"]

\* the symbols and watchlist ids of the add-stock requests
AddStockInputs ==
    [symbol : {"tcs", "TCS", "INFY"},
     watchlist_ids : { <<1>>, <<1, 2>>, <<2, 1>>, <<3>> }]

\* the stores the add-stock requests meet: the user's default watchlist
\* (empty after register, or holding a stock), a watchlist they created, and
\* a watchlist of the other user
AddStockStores ==
    { << Watchlist(1, 1, "Default", TRUE, stocks),
         Watchlist(2, 1, "Mine", FALSE, << >>),
         Watchlist(3, 2, "Default", TRUE, << >>) >> :
      stocks \in { << >>, << [symbol |-> "TCS", added_at |-> 0] >> } }

InitAddStock ==
    /\ CoreIdle
    /\ users_collection = Users
    /\ watchlists_collection \in AddStockStores
    /\ requests = << >>
    /\ price_cache = None
    /\ market_feed_cache = None
    /\ search_cache = None
    /\ utcnow = 0
    /\ response = None

\* a request arrives and runs to its first await in the loop
AddStockBegin ==
    /\ Len(requests) < MaxRequests
    /\ \E data \in AddStockInputs, price_found \in BOOLEAN :
           requests' = Append(requests, AddStockEnter(data, price_found))
    /\ UNCHANGED <<users_collection, watchlists_collection, price_cache,
                   market_feed_cache, search_cache, utcnow, response>>
    /\ UNCHANGED coreVars

\* await watchlists_collection.find_one(...) answers, the check follows
AddStockFind ==
    /\ \E k \in 1..Len(requests) :
           /\ requests[k].handler = "add_stock_to_watchlists"
           /\ requests[k].pc = "find_one"
           /\ requests' =
                [requests EXCEPT ![k] =
                    AddStockChecked(@,
                        FindOne(watchlists_collection,
                                LAMBDA doc : OwnWatchlist(requests[k],
                                    requests[k].data.watchlist_ids[requests[k].i],
                                    doc)))]
    /\ UNCHANGED <<users_collection, watchlists_collection, price_cache,
                   market_feed_cache, search_cache, utcnow, response>>
    /\ UNCHANGED coreVars

\* await watchlists_collection.update_one(..., {"$push": ...}) is applied
AddStockUpdate ==
    /\ \E k \in 1..Len(requests) :
           /\ requests[k].handler = "add_stock_to_watchlists"
           /\ requests[k].pc = "update_one"
           /\ watchlists_collection' =
                UpdateOne(watchlists_collection,
                          LAMBDA doc : OwnWatchlist(requests[k],
                              requests[k].data.watchlist_ids[requests[k].i],
                              doc),
                          LAMBDA doc : [doc EXCEPT !.stocks =
                              Append(@, StockEntry(requests[k].normalized_symbol))])
           /\ requests' =
                [requests EXCEPT ![k] =
                    AddStockLoop([@ EXCEPT !.added_count = @ + 1])]
    /\ UNCHANGED <<users_collection, price_cache, market_feed_cache,
                   search_cache, utcnow, response>>
    /\ UNCHANGED coreVars

NextAddStock == AddStockBegin \/ AddStockFind \/ AddStockUpdate

SpecAddStock == InitAddStock /\ [][NextAddStock]_vars

-----------------------------------------------------------------------------
(* main.py delete_watchlist *)

\* from the arrival of the request to await find_one: the user is read
DeleteEnter(watchlist_id) ==
    [handler |-> "delete_watchlist", watchlist_id |-> watchlist_id,
     pc |-> "find_one", user |-> FindUser(CurrentUser), response |-> None]

\* delete_watchlist without the test of is_default
DeleteUnchecked(r, watchlist) == [r EXCEPT !.pc = "delete_one"]

\* find_one has answered: a default watchlist is refused
DeleteChecked(r, watchlist) ==
    IF watchlist # None /\ watchlist.is_default
    THEN [r EXCEPT !.pc = "done",
                   !.response = HTTPException(400,
                       "Cannot delete default watchlist. Use reset instead.")]
    ELSE [r EXCEPT !.pc = "delete_one"]

\* delete_one has answered: deleted_count decides the response
DeleteReturn(r, deleted_count) ==
    [r EXCEPT !.pc = "done",
              !.response = IF deleted_count = 0
                           THEN HTTPException(404, "Watchlist not found")
                           ELSE [message |-> "Watchlist deleted successfully"]]

\* the watchlist ids of the delete requests: the stored ones and a missing one
DeleteInputs == 1..5

\* the stores the delete requests meet: the user's default watchlist, up to
\* two watchlists they created, and the default watchlist of the other user
DeleteStores ==
    { << Watchlist(1, 1, "Default", TRUE, << >>),
         Watchlist(2, 1, "Mine", FALSE, << >>),
         Watchlist(3, 2, "Default", TRUE, << >>) >> \o more :
      more \in { << >>, << Watchlist(4, 1, "Other", FALSE, << >>) >> } }

InitDelete ==
    /\ CoreIdle
    /\ users_collection = Users
    /\ watchlists_collection \in DeleteStores
    /\ requests = << >>
    /\ price_cache = None
    /\ market_feed_cache = None
    /\ search_cache = None
    /\ utcnow = 0
    /\ response = None

\* a request arrives and runs to await watchlists_collection.find_one
DeleteBegin ==
    /\ Len(requests) < MaxRequests
    /\ \E watchlist_id \in DeleteInputs :
           requests' = Append(requests, DeleteEnter(watchlist_id))
    /\ UNCHANGED <<users_collection, watchlists_collection, price_cache,
                   market_feed_cache, search_cache, utcnow, response>>
    /\ UNCHANGED coreVars

\* await watchlists_collection.find_one(...) answers, the test follows
DeleteFind ==
    /\ \E k \in 1..Len(requests) :
           /\ requests[k].handler = "delete_watchlist"
           /\ requests[k].pc = "find_one"
           /\ requests' =
                [requests EXCEPT ![k] =
                    DeleteChecked(@,
                        FindOne(watchlists_collection,
                                LAMBDA doc : OwnWatchlist(requests[k],
                                    requests[k].watchlist_id, doc)))]
    /\ UNCHANGED <<users_collection, watchlists_collection, price_cache,
                   market_feed_cache, search_cache, utcnow, response>>
    /\ UNCHANGED coreVars

\* await watchlists_collection.delete_one(...) is applied
DeleteApply ==
    /\ \E k \in 1..Len(requests) :
           /\ requests[k].handler = "delete_watchlist"
           /\ requests[k].pc = "delete_one"
           /\ watchlists_collection' =
                DeleteOne(watchlists_collection,
                          LAMBDA doc : OwnWatchlist(requests[k],
                              requests[k].watchlist_id, doc))
           /\ requests' =
                [requests EXCEPT ![k] =
                    DeleteReturn(@, Len(watchlists_collection)
                                    - Len(watchlists_collection'))]
    /\ UNCHANGED <<users_collection, price_cache, market_feed_cache,
                   search_cache, utcnow, response>>
    /\ UNCHANGED coreVars

NextDelete == DeleteBegin \/ DeleteFind \/ DeleteApply

SpecDelete == InitDelete /\ [][NextDelete]_vars

-----------------------------------------------------------------------------
(* main.py register, login, create_default_watchlist *)

\* the registration, login and create-default requests of one scenario: two
\* more than MaxRequests, for a create-default request needs a token, and a
\* token is issued by a register or login request that has been answered
MaxAuthRequests == MaxRequests + 2

\* the head of custom_stocks
custom_stocks == << "RELIANCE", "TCS" >>

\* [{"symbol": symbol, "added_at": datetime.utcnow()} for symbol in custom_stocks]
DefaultStocks == [i \in 1..Len(custom_stocks) |-> StockEntry(custom_stocks[i])]

\* the response of register and login: create_access_token({"sub": email})
TokenResponse(email) == [access_token |-> email, token_type |-> "bearer"]

\* a client holds a token for the email: get_current_user accepts any token
\* that a register or login request has handed out
TokenIssued(email) ==
    \E k \in 1..Len(requests) :
        /\ requests[k].pc = "done"
        /\ "access_token" \in DOMAIN requests[k].response
        /\ requests[k].response.access_token = email

\* register: users_collection.find_one({"email": user.email}) has answered
RegisterChecked(r, existing) ==
    IF existing # None
    THEN [r EXCEPT !.pc = "done",
                   !.response = HTTPException(400, "Email already registered")]
    ELSE [r EXCEPT !.pc = "users.insert_one"]

\* create_default_watchlist: find_one({"user_id": ..., "is_default": True})
\* has answered
CreateDefaultChecked(r, existing) ==
    IF existing # None
    THEN [r EXCEPT !.pc = "done",
                   !.response = [message |-> "Default watchlist already exists",
                                 watchlist_id |-> existing._id]]
    ELSE [r EXCEPT !.pc = "insert_one"]

InitDefault ==
    /\ CoreIdle
    /\ users_collection = << >>
    /\ watchlists_collection = << >>
    /\ requests = << >>
    /\ price_cache = None
    /\ market_feed_cache = None
    /\ search_cache = None
    /\ utcnow = 0
    /\ response = None

\* a register or login request arrives and awaits users_collection.find_one
AuthBegin ==
    /\ Len(requests) < MaxAuthRequests
    /\ \E handler \in {"register", "login"} :
           requests' = Append(requests,
               [handler |-> handler, email |-> CurrentUser,
                pc |-> "users.find_one", user |-> None, response |-> None])
    /\ UNCHANGED <<users_collection, watchlists_collection, price_cache,
                   market_feed_cache, search_cache, utcnow, response>>
    /\ UNCHANGED coreVars

\* register: await users_collection.find_one answers
RegisterFind ==
    /\ \E k \in 1..Len(requests) :
           /\ requests[k].handler = "register"
           /\ requests[k].pc = "users.find_one"
           /\ requests' = [requests EXCEPT ![k] =
                              RegisterChecked(@, FindUser(requests[k].email))]
    /\ UNCHANGED <<users_collection, watchlists_collection, price_cache,
                   market_feed_cache, search_cache, utcnow, response>>
    /\ UNCHANGED coreVars

\* register: await users_collection.insert_one is applied; the unique index
\* on email refuses a second document (the except clause answers 500)
RegisterInsertUser ==
    /\ \E k \in 1..Len(requests) :
           /\ requests[k].handler = "register"
           /\ requests[k].pc = "users.insert_one"
           /\ IF FindUser(requests[k].email) # None
              THEN /\ requests' = [requests EXCEPT ![k] =
                          [@ EXCEPT !.pc = "done",
                                    !.response = HTTPException(500,
                                        "Registration failed.")]]
                   /\ UNCHANGED users_collection
              ELSE /\ users_collection' =
                          InsertOne(users_collection,
                                    [_id |-> 0, email |-> requests[k].email])
                   /\ requests' = [requests EXCEPT ![k] =
                          [@ EXCEPT !.pc = "watchlists.insert_one",
                                    !.user = [_id |-> NewId(users_collection),
                                              email |-> requests[k].email]]]
    /\ UNCHANGED <<watchlists_collection, price_cache, market_feed_cache,
                   search_cache, utcnow, response>>
    /\ UNCHANGED coreVars

\* register: await watchlists_collection.insert_one (the empty default
\* watchlist) is applied, the token is made and returned
RegisterInsertWatchlist ==
    /\ \E k \in 1..Len(requests) :
           /\ requests[k].handler = "register"
           /\ requests[k].pc = "watchlists.insert_one"
           /\ watchlists_collection' =
                InsertOne(watchlists_collection,
                          Watchlist(0, requests[k].user._id, "Default", TRUE, << >>))
           /\ requests' = [requests EXCEPT ![k] =
                  [@ EXCEPT !.pc = "done",
                            !.response = TokenResponse(requests[k].email)]]
    /\ UNCHANGED <<users_collection, price_cache, market_feed_cache,
                   search_cache, utcnow, response>>
    /\ UNCHANGED coreVars

\* login: await users_collection.find_one answers (the password is right)
Login ==
    /\ \E k \in 1..Len(requests) :
           /\ requests[k].handler = "login"
           /\ requests[k].pc = "users.find_one"
           /\ requests' = [requests EXCEPT ![k] =
                  [@ EXCEPT !.pc = "done",
                            !.response =
                                IF FindUser(requests[k].email) = None
                                THEN HTTPException(401, "Incorrect email or password")
                                ELSE TokenResponse(requests[k].email)]]
    /\ UNCHANGED <<users_collection, watchlists_collection, price_cache,
                   market_feed_cache, search_cache, utcnow, response>>
    /\ UNCHANGED coreVars

\* a create_default_watchlist request arrives with a token and awaits
\* users_collection.find_one
CreateDefaultBegin ==
    /\ Len(requests) < MaxAuthRequests
    /\ TokenIssued(CurrentUser)
    /\ requests' = Append(requests,
           [handler |-> "create_default_watchlist", email |-> CurrentUser,
            pc |-> "users.find_one", user |-> None, response |-> None])
    /\ UNCHANGED <<users_collection, watchlists_collection, price_cache,
                   market_feed_cache, search_cache, utcnow, response>>
    /\ UNCHANGED coreVars

\* create_default_watchlist: await users_collection.find_one answers
CreateDefaultUser ==
    /\ \E k \in 1..Len(requests) :
           /\ requests[k].handler = "create_default_watchlist"
           /\ requests[k].pc = "users.find_one"
           /\ requests' = [requests EXCEPT ![k] =
                  [@ EXCEPT !.pc = "find_one",
                            !.user = FindUser(requests[k].email)]]
    /\ UNCHANGED <<users_collection, watchlists_collection, price_cache,
                   market_feed_cache, search_cache, utcnow, response>>
    /\ UNCHANGED coreVars

\* create_default_watchlist: await watchlists_collection.find_one answers
CreateDefaultFind ==
    /\ \E k \in 1..Len(requests) :
           /\ requests[k].handler = "create_default_watchlist"
           /\ requests[k].pc = "find_one"
           /\ requests' = [requests EXCEPT ![k] =
                  CreateDefaultChecked(@,
                      FindOne(watchlists_collection,
                              LAMBDA doc : /\ doc.user_id = requests[k].user._id
                                           /\ doc.is_default))]
    /\ UNCHANGED <<users_collection, watchlists_collection, price_cache,
                   market_feed_cache, search_cache, utcnow, response>>
    /\ UNCHANGED coreVars

\* create_default_watchlist: await watchlists_collection.insert_one is applied
CreateDefaultInsert ==
    /\ \E k \in 1..Len(requests) :
           /\ requests[k].handler = "create_default_watchlist"
           /\ requests[k].pc = "insert_one"
           /\ watchlists_collection' =
                InsertOne(watchlists_collection,
                          Watchlist(0, requests[k].user._id, "Default", TRUE,
                                    DefaultStocks))
           /\ requests' = [requests EXCEPT ![k] =
                  [@ EXCEPT !.pc = "done",
                            !.response =
                                [message |-> "Default watchlist created successfully",
                                 watchlist_id |-> NewId(watchlists_collection),
                                 stock_count |-> Len(custom_stocks)]]]
    /\ UNCHANGED <<users_collection, price_cache, market_feed_cache,
                   search_cache, utcnow, response>>
    /\ UNCHANGED coreVars

NextDefault ==
    \/ AuthBegin
    \/ RegisterFind
    \/ RegisterInsertUser
    \/ RegisterInsertWatchlist
    \/ Login
    \/ CreateDefaultBegin
    \/ CreateDefaultUser
    \/ CreateDefaultFind
    \/ CreateDefaultInsert

SpecDefault == InitDefault /\ [][NextDefault]_vars

-----------------------------------------------------------------------------
(***************************************************************************)
(* main.py price_cache and its three users: get_price (through             *)
(* fetch_price_with_cache), get_market_feed and get_watchlist.  A price    *)
(* record is a dict, here a record with the same keys.  A request is one   *)
(* action; response keeps, for the request served last, the records it     *)
(* returned and for each whether it came from price_cache.                 *)
(***************************************************************************)

PRICE_CACHE_TTL == 120

MARKET_FEED_CACHE_TTL == 120

\* the clock advances in steps of half a TTL, MaxTicks times at most
MaxTicks == 2

TickSeconds == PRICE_CACHE_TTL \div 2

\* the elements of a list
Range(list) == { list[i] : i \in 1..Len(list) }

\* the head of POPULAR_STOCKS
POPULAR_STOCKS == << "RELIANCE", "TCS" >>

\* the symbols of the price requests: two popular ones and another one
PriceSymbols == {"RELIANCE", "TCS", "WIPRO"}

\* data_fetcher.fetch_latest_price(symbol), when the history is not empty
fetch_latest_price(symbol) ==
    [symbol |-> symbol, price |-> 10050, change |-> 50, change_percent |-> 50,
     volume |-> 1000, day_high |-> 10100, day_low |-> 9900,
     high_52w |-> 12000, low_52w |-> 8000, market_cap |-> 0,
     pe_ratio |-> None, pb_ratio |-> None, sector |-> "N/A",
     industry |-> "N/A", timestamp |-> utcnow]

\* data_fetcher.fetch_minimal_price(symbol), when the history has two bars
fetch_minimal_price(symbol) ==
    [symbol |-> symbol, price |-> 10050, change |-> 50, change_percent |-> 50]

\* dict[key] = value on a record
WithKey(dict, key, value) ==
    [k \in DOMAIN dict \cup {key} |-> IF k = key THEN value ELSE dict[k]]

\* price_data["sparkline"] = [...]: seven closes, or [] for a short history
WithSparkline(price_data, long_history) ==
    WithKey(price_data, "sparkline",
            IF long_history THEN [i \in 1..7 |-> 10000] ELSE << >>)

\* get_cached_price(symbol) on a cache
get_cached_price(cache, symbol) ==
    IF cache[symbol] # None
       /\ utcnow - cache[symbol].timestamp < PRICE_CACHE_TTL
    THEN cache[symbol].data
    ELSE None

\* cache_price(symbol, data) on a cache
cache_price(cache, symbol, data) ==
    [cache EXCEPT ![symbol] = [data |-> data, timestamp |-> utcnow]]

\* get_cached_market_feed().  The code reads data, and the caller reads the
\* result, for the truth value only: the None of the start, an empty list
\* and the None returned are all << >> here; the timestamp, set together
\* with data, is read only when data is not empty.
get_cached_market_feed ==
    IF market_feed_cache.data # << >>
       /\ utcnow - market_feed_cache.timestamp < MARKET_FEED_CACHE_TTL
    THEN market_feed_cache.data
    ELSE << >>

\* what one lookup leaves: the record returned (None for none), whether it
\* came from price_cache, and the cache afterwards
Served(record, cached, cache) ==
    [record |-> record, cached |-> cached, cache |-> cache]

\* fetch_price_with_cache(symbol)
fetch_price_with_cache(cache, symbol, found) ==
    Let(get_cached_price(cache, symbol), LAMBDA cached :
        IF cached # None THEN Served(cached, TRUE, cache)
        ELSE IF found
        THEN Served(fetch_latest_price(symbol), FALSE,
                    cache_price(cache, symbol, fetch_latest_price(symbol)))
        ELSE Served(None, FALSE, cache))

\* get_market_feed.fetch_stock_with_sparkline(symbol)
fetch_stock_with_sparkline(cache, symbol, found, long_history) ==
    Let(get_cached_price(cache, symbol), LAMBDA cached :
        IF cached # None THEN Served(cached, TRUE, cache)
        ELSE IF found
        THEN Let(WithSparkline(fetch_latest_price(symbol), long_history),
                 LAMBDA price_data :
                     Served(price_data, FALSE,
                            cache_price(cache, symbol, price_data)))
        ELSE Served(None, FALSE, cache))

\* get_watchlist.fetch_stock_minimal_cached(item)
fetch_stock_minimal_cached(cache, item, minimal, found) ==
    Let(get_cached_price(cache, item.symbol), LAMBDA cached :
        IF cached # None
        THEN Served([symbol         |-> item.symbol,
                     price          |-> cached.price,
                     change         |-> cached.change,
                     change_percent |-> cached.change_percent,
                     added_at       |-> item.added_at], TRUE, cache)
        ELSE IF found
        THEN Let(IF minimal THEN fetch_minimal_price(item.symbol)
                 ELSE fetch_latest_price(item.symbol),
                 LAMBDA price_data :
                     Served(WithKey(price_data, "added_at", item.added_at),
                            FALSE,
                            cache_price(cache, item.symbol, price_data)))
        ELSE Served(None, FALSE, cache))

\* the lookups of one request over its symbols, one after the other:
\* the records returned (None dropped) and the cache afterwards
RECURSIVE ServeAll(_, _, _, _)
ServeAll(cache, items, Lookup(_, _), served) ==
    IF items = << >> THEN [records |-> served, cache |-> cache]
    ELSE Let(Lookup(cache, Head(items)), LAMBDA s :
             ServeAll(s.cache, Tail(items), Lookup,
                      IF s.record = None THEN served
                      ELSE Append(served, [record |-> s.record,
                                           cached |-> s.cached])))

\* the watchlist get_watchlist reads
PriceWatchlist ==
    Watchlist(1, 1, "Default", TRUE,
              << [symbol |-> "TCS", added_at |-> 0],
                 [symbol |-> "WIPRO", added_at |-> 0] >>)

InitPrice ==
    /\ CoreIdle
    /\ users_collection = Users
    /\ watchlists_collection = << PriceWatchlist >>
    /\ requests = << >>
    /\ price_cache = [symbol \in PriceSymbols |-> None]
    /\ market_feed_cache = [data |-> << >>, timestamp |-> 0]
    /\ search_cache = None
    /\ utcnow = 0
    /\ response = None

\* GET /price/{symbol}
GetPrice ==
    /\ \E symbol \in PriceSymbols, found \in BOOLEAN :
         \E s \in {fetch_price_with_cache(price_cache, symbol, found)} :
           /\ price_cache' = s.cache
           /\ response' =
                IF s.record = None
                THEN [endpoint |-> "get_price",
                      error |-> HTTPException(404, "Stock not found"),
                      records |-> << >>]
                ELSE [endpoint |-> "get_price",
                      records |-> << [record |-> s.record, cached |-> s.cached] >>]
    /\ UNCHANGED <<users_collection, watchlists_collection, requests,
                   market_feed_cache, search_cache, utcnow>>
    /\ UNCHANGED coreVars

\* GET /market-feed
GetMarketFeed ==
    /\ IF get_cached_market_feed # << >>
       THEN /\ response' = [endpoint |-> "get_market_feed", cached |-> TRUE,
                            records |-> get_cached_market_feed]
            /\ UNCHANGED <<price_cache, market_feed_cache>>
       ELSE \E found \in [Range(POPULAR_STOCKS) -> BOOLEAN],
               long_history \in BOOLEAN :
              \E all \in {ServeAll(price_cache, POPULAR_STOCKS,
                              LAMBDA cache, symbol :
                                  fetch_stock_with_sparkline(cache, symbol,
                                      found[symbol], long_history),
                              << >>)} :
                /\ price_cache' = all.cache
                /\ market_feed_cache' = [data |-> all.records, timestamp |-> utcnow]
                /\ response' = [endpoint |-> "get_market_feed", cached |-> FALSE,
                                records |-> all.records]
    /\ UNCHANGED <<users_collection, watchlists_collection, requests,
                   search_cache, utcnow>>
    /\ UNCHANGED coreVars

\* GET /watchlists/{watchlist_id}
GetWatchlist ==
    /\ \E minimal \in BOOLEAN,
          found \in [{ item.symbol : item \in Range(watchlists_collection[1].stocks) }
                        -> BOOLEAN] :
         \E all \in {ServeAll(price_cache, watchlists_collection[1].stocks,
                         LAMBDA cache, item :
                             fetch_stock_minimal_cached(cache, item, minimal,
                                                        found[item.symbol]),
                         << >>)} :
           /\ price_cache' = all.cache
           /\ response' = [endpoint |-> "get_watchlist", records |-> all.records]
    /\ UNCHANGED <<users_collection, watchlists_collection, requests,
                   market_feed_cache, search_cache, utcnow>>
    /\ UNCHANGED coreVars

\* time passes
Tick ==
    /\ utcnow < MaxTicks * TickSeconds
    /\ utcnow' = utcnow + TickSeconds
    /\ UNCHANGED <<users_collection, watchlists_collection, requests,
                   price_cache, market_feed_cache, search_cache, response>>
    /\ UNCHANGED coreVars

NextPrice == GetPrice \/ GetMarketFeed \/ GetWatchlist \/ Tick

SpecPrice == InitPrice /\ [][NextPrice]_vars

-----------------------------------------------------------------------------
(***************************************************************************)
(* main.py search_cache and cache_search_results.  The dict is the         *)
(* sequence of its items in dict order (insertion order; a key assigned    *)
(* again keeps its place); an item is its key and the timestamp of its     *)
(* value (the results stored with it are read by no statement of           *)
(* cache_search_results).  A query is the number of its normal form (the   *)
(* text upper-cased and stripped) and the form it was typed in.            *)
(***************************************************************************)

\* if len(search_cache) > 500
SearchCacheLimit == 500

\* sorted(...)[:100]
SearchCacheEvict == 100

\* the calls of cache_search_results in one behaviour
MaxInserts == 2

\* query.upper().strip()
CacheKey(query) == query.text

\* the keys of the dict
CacheKeys(cache) == { cache[i].key : i \in 1..Len(cache) }

\* search_cache[cache_key] = (results, datetime.utcnow())
CacheSet(cache, cache_key, now) ==
    IF cache_key \in CacheKeys(cache)
    THEN [i \in 1..Len(cache) |->
              IF cache[i].key = cache_key
              THEN [key |-> cache_key, timestamp |-> now]
              ELSE cache[i]]
    ELSE Append(cache, [key |-> cache_key, timestamp |-> now])

\* a sort that is not stable: items of equal timestamp end in reverse order
SortedTiesReversed(items) ==
    SortSeq(items, LAMBDA a, b : a.timestamp <= b.timestamp)

\* sorted(search_cache.keys(), key=lambda k: search_cache[k][1]): a stable
\* sort, items of equal timestamp stay in dict order (SortSeq moves an item
\* in front of another only if its timestamp is smaller)
SortedByTimestamp(items) ==
    SortSeq(items, LAMBDA a, b : a.timestamp < b.timestamp)

\* oldest_keys
OldestKeys(cache) ==
    CacheKeys(SubSeq(SortedByTimestamp(cache), 1,
                     Min(SearchCacheEvict, Len(cache))))

\* for key in oldest_keys: del search_cache[key]
CacheDelete(cache, keys) == SelectSeq(cache, LAMBDA item : item.key \notin keys)

\* cache_search_results(query, results) at the time now
cache_search_results(cache, query, now) ==
    Let(CacheSet(cache, CacheKey(query), now), LAMBDA set :
        IF Len(set) > SearchCacheLimit
        THEN CacheDelete(set, OldestKeys(set))
        ELSE set)

\* a cache of n items written one after the other: all within one reading
\* of the clock, or one per second, or one per second and the first key
\* written again at the end
FilledCache(n, pattern) ==
    [i \in 1..n |->
        [key       |-> i,
         timestamp |-> CASE pattern = "at once" -> 0
                         [] pattern = "one per second" -> i
                         [] pattern = "first again" -> IF i = 1 THEN n + 1 ELSE i]]

\* the clock after the last write of a filled cache
FilledClock(n, pattern) ==
    CASE pattern = "at once" -> 0
      [] pattern = "one per second" -> n
      [] pattern = "first again" -> n + 1

\* the queries of a call: the first key of the dict, its last key, or a new
\* one, typed in upper case or in lower case with blanks around
SearchQueries(cache) ==
    [text : (IF cache = << >> THEN {}
             ELSE {cache[1].key, cache[Len(cache)].key})
            \cup {1 + Max(0, CHOOSE k \in CacheKeys(cache) \cup {0} :
                                \A j \in CacheKeys(cache) : j <= k)},
     form : {"upper", " lower "}]

InitSearch ==
    /\ CoreIdle
    /\ users_collection = None
    /\ watchlists_collection = None
    /\ requests = None
    /\ price_cache = None
    /\ market_feed_cache = None
    /\ \/ search_cache = << >> /\ utcnow = 0
       \/ \E n \in {SearchCacheLimit - 1, SearchCacheLimit},
             pattern \in {"at once", "one per second", "first again"} :
              /\ search_cache = FilledCache(n, pattern)
              /\ utcnow = FilledClock(n, pattern)
    /\ response = [calls |-> 0, cache_key |-> 0]

\* one call of cache_search_results, at the clock reading of the call before
\* or a second later
CacheSearchResults ==
    /\ response.calls < MaxInserts
    /\ \E query \in SearchQueries(search_cache), now \in {utcnow, utcnow + 1} :
           /\ search_cache' = cache_search_results(search_cache, query, now)
           /\ utcnow' = now
           /\ response' = [calls |-> response.calls + 1,
                           cache_key |-> CacheKey(query)]
    /\ UNCHANGED <<users_collection, watchlists_collection, requests,
                   price_cache, market_feed_cache>>
    /\ UNCHANGED coreVars

NextSearch == CacheSearchResults

SpecSearch == InitSearch /\ [][NextSearch]_vars

----------------------------------------------------------------------------
(* Properties of calculate_strength_score, checked under SpecScore *)

\* calculate_strength_score has returned a score
ScoreDone == "strength_score" \in DOMAIN score_result

HasBenchmark == nifty_df # None

\* the rule (1..10 of the rule table) an explanation key belongs to
RuleOfKey(key) ==
    CASE key \in {"rs_new_high", "rs_outperforming", "rs_underperforming"} -> 1
      [] key \in {"ema_alignment", "ema_partial", "ema_weak"} -> 2
      [] key \in {"rsi_strong", "rsi_moderate", "rsi_overbought", "rsi_weak"} -> 3
      [] key \in {"macd_bullish", "macd_positive", "macd_bearish"} -> 4
      [] key \in {"adx_strong", "adx_moderate", "adx_weak"} -> 5
      [] key \in {"volume_high", "volume_moderate", "volume_low"} -> 6
      [] key \in {"sma_rising", "sma_falling"} -> 7
      [] key \in {"volatility_high", "volatility_moderate", "volatility_low"} -> 8
      [] key \in {"price_above_ema", "price_below_ema"} -> 9
      [] key \in {"liquidity"} -> 10
      [] OTHER -> 0

\* The rule table of the specification: the tiers <<condition, points>> of
\* rule k in table order, read from the indicator snapshot, the
\* relative-strength result, the latest close and the liquidity of the call.
RefTiers(k) ==
    LET ind   == score_locals.indicators
        price == score_locals.current_price
        liq   == score_locals.liquidity
    IN  CASE k = 1 ->
               IF HasBenchmark
               THEN LET rs == score_locals.rs
                    IN  << <<rs.is_new_high, 20>>,
                           <<rs.trend = "Outperforming", 12>> >>
               ELSE << >>
          [] k = 2 -> << <<ind.emas.ema_10 > ind.emas.ema_20
                            /\ ind.emas.ema_20 > ind.emas.ema_50, 15>>,
                         <<ind.emas.ema_10 > ind.emas.ema_20, 8>> >>
          [] k = 3 -> << <<55 <= ind.rsi /\ ind.rsi <= 75, 12>>,
                         <<45 <= ind.rsi /\ ind.rsi < 55, 6>>,
                         <<ind.rsi > 80, 0>> >>
          [] k = 4 -> << <<ind.macd.is_bullish /\ ind.macd.histogram > 0, 10>>,
                         <<ind.macd.is_bullish, 5>> >>
          [] k = 5 -> << <<ind.adx >= 25, 10>>, <<ind.adx >= 20, 5>> >>
          [] k = 6 -> << <<RGt(ind.volume_ratio, Rat(3, 2)), 8>>,
                         <<RGt(ind.volume_ratio, FromInt(1)), 4>> >>
          [] k = 7 -> << <<ind.sma_50.is_rising, 8>> >>
          [] k = 8 -> << <<ind.volatility > 50, -10>>,
                         <<ind.volatility > 35, -5>> >>
          [] k = 9 -> << <<price > ind.emas.ema_50, 7>>,
                         <<price > ind.emas.ema_20, 3>> >>
          [] k = 10 -> << <<liq > 10000000, 10>>, <<liq > 5000000, 5>> >>

\* the points of the first matching tier, 0 when none matches
FirstMatch(tiers) ==
    IF \E i \in 1..Len(tiers) : tiers[i][1]
    THEN LET i == CHOOSE i \in 1..Len(tiers) :
                      tiers[i][1] /\ \A j \in 1..(i - 1) : ~tiers[j][1]
         IN  tiers[i][2]
    ELSE 0

\* the reference fold: the subtotals after rules 1..k, the subtotal floored
\* at 0 at rule 8
RECURSIVE RefFold(_)
RefFold(k) ==
    IF k = 0 THEN << >>
    ELSE LET prev == RefFold(k - 1)
             acc  == IF k = 1 THEN 0 ELSE prev[k - 1]
             t    == acc + FirstMatch(RefTiers(k))
         IN  Append(prev, IF k = 8 THEN Max(0, t) ELSE t)

\* C1: whatever the indicator values and the relative-strength result (or
\* none), the returned strength_score lies in 0..100.
C1_ScoreWithinBounds ==
    ScoreDone =>
        /\ 0 <= score_result.strength_score
        /\ score_result.strength_score <= 100

\* C1 witness: a call whose volatility penalty exceeded the points of rules
\* 1-7 and that returned a score in range.
C1_Witness ==
    /\ ScoreDone
    /\ lib.volatility > 50
    /\ score_locals.subtotals[7] < 10
    /\ score_result.strength_score \in 0..100

\* C3: the running total after every rule equals the reference fold over the
\* rule table, each rule adding the points of its first matching tier only.
C3_RunningTotalIsReferenceFold ==
    ScoreDone => score_locals.subtotals = RefFold(10)

\* C3 witness: relative strength at a new high and outperforming: rule 1
\* gave 20, not 32.
C3_Witness ==
    /\ ScoreDone
    /\ HasBenchmark
    /\ score_locals.rs.is_new_high
    /\ score_locals.rs.trend = "Outperforming"
    /\ score_locals.subtotals[1] = 20

\* C4: every evaluated rule leaves exactly one explanation entry, in rule
\* order: rules 1..10 (ten entries) with a benchmark, rules 2..10 without.
C4_OneEntryPerRuleInOrder ==
    ScoreDone =>
        LET e     == score_result.explanation
            first == IF HasBenchmark THEN 1 ELSE 2
        IN  /\ Len(e) = 10 - first + 1
            /\ \A i \in 1..Len(e) : RuleOfKey(e[i][1]) = first + i - 1

\* C4 witness: a benchmark is present and every rule fired its 0-point tier;
\* ten entries all the same.
C4_Witness ==
    /\ ScoreDone
    /\ HasBenchmark
    /\ \A k \in 1..10 : score_locals.subtotals[k] = 0
    /\ lib.volatility <= 35
    /\ Len(score_result.explanation) = 10

\* C5: the subtotal is never negative after any rule, also when the
\* volatility penalty exceeds the points of rules 1-7.
C5_SubtotalNeverNegative ==
    ScoreDone => \A k \in 1..10 : score_locals.subtotals[k] >= 0

\* C5 witness: a penalty of -10 met a subtotal below 10 and left 0.
C5_Witness ==
    /\ ScoreDone
    /\ lib.volatility > 50
    /\ score_locals.subtotals[7] < 10
    /\ score_locals.subtotals[8] = 0

\* C6: without benchmark data (fetch_nifty_data returned None) rule 1 is
\* skipped: no rs_ key, no points of rule 1, rules 2..10 evaluated as they are
\* with a benchmark, and the score is at most 80.
C6_NoBenchmarkSkipsRuleOne ==
    (ScoreDone /\ ~HasBenchmark) =>
        LET e    == score_result.explanation
            with == calculate_strength_score(
                        stock_df,
                        MkFrame(NiftyCloses(100, 50), Flat(MaxBars, 1), NiftyFirst),
                        lib)
        IN  /\ \A i \in 1..Len(e) : RuleOfKey(e[i][1]) # 1
            /\ score_locals.subtotals[1] = 0
            /\ e = Tail(with.explanation)
            /\ score_locals.subtotals = RefFold(10)
            /\ score_result.strength_score <= 80

\* C6 witness: no benchmark and every other rule at its top tier: 80.
C6_Witness ==
    /\ ScoreDone
    /\ ~HasBenchmark
    /\ score_result.strength_score = 80

\* C7: the trend label follows the returned strength_score: Bullish from 70,
\* Neutral from 40 to 69, Weak below 40.
C7_TrendFollowsScore ==
    ScoreDone =>
        LET sc == score_result.strength_score
            t  == score_result.trend
        IN  /\ t = "Bullish" <=> sc >= 70
            /\ t = "Neutral" <=> (40 <= sc /\ sc < 70)
            /\ t = "Weak" <=> sc < 40

\* C7 witness: a score of exactly 70 labelled Bullish.
C7_Witness ==
    /\ ScoreDone
    /\ score_result.strength_score = 70
    /\ score_result.trend = "Bullish"

----------------------------------------------------------------------------
(* Properties of calculate_projection, checked under SpecProj *)

ProjDone == "projected_range" \in DOMAIN proj_result

\* C2: for a positive latest close, ATR >= 0, either direction and every
\* horizon months >= 1, the projected range is ordered low <= mid <= high.
C2_ProjectedRangeOrdered ==
    (ProjDone /\ months >= 1 /\ lib.atr >= 0 /\ LastBar(stock_df).Close > 0) =>
        /\ proj_result.projected_range.low <= proj_result.projected_range.mid
        /\ proj_result.projected_range.mid <= proj_result.projected_range.high

----------------------------------------------------------------------------
(* Properties of calculate_relative_strength, checked under SpecRS *)

RsDone == "trend" \in DOMAIN rs_result

\* the closes of the two frames on their common dates, and their number
CommonDates == IndexIntersection(stock_df, nifty_df)

StockAligned == CloseAt(stock_df, CommonDates)

NiftyAligned == CloseAt(nifty_df, CommonDates)

Window == Len(CommonDates)

\* the price ratio at bar i compared with c/100 of the ratio at bar j
RatioGeqPct(i, j, c) ==
    100 * StockAligned[i] * NiftyAligned[j] >= c * StockAligned[j] * NiftyAligned[i]

RatioGt(i, j) ==
    StockAligned[i] * NiftyAligned[j] > StockAligned[j] * NiftyAligned[i]

\* C8: is_new_high is true exactly when the current RS value is at least 0.98
\* of the maximum of the window (the RS index is the price ratio scaled by a
\* constant, so this is: at least 0.98 of the ratio at every bar); true at
\* exactly 0.98 of the maximum, false at 0.9799 of it.
C8_NewHighIffWithinTwoPercent ==
    RsDone =>
        /\ rs_result.is_new_high <=> \A i \in 1..Window : RatioGeqPct(Window, i, 98)
        /\ rs_locals.current_rs = RMul(rs_locals.max_rs, Rat(9800, 10000))
               => rs_result.is_new_high
        /\ rs_locals.current_rs = RMul(rs_locals.max_rs, Rat(9799, 10000))
               => ~rs_result.is_new_high

\* C8 witness: the current value is exactly 0.98 of the maximum, and
\* is_new_high is true.
C8_Witness ==
    /\ RsDone
    /\ rs_locals.current_rs = RMul(rs_locals.max_rs, Rat(98, 100))
    /\ rs_result.is_new_high

\* C9: with at least 21 points the trend is Outperforming exactly when the
\* last RS value is above the value 20 positions before the last.
C9_TrendComparesTwentyBarsEarlier ==
    (RsDone /\ Window >= 21) =>
        (rs_result.trend = "Outperforming" <=> RatioGt(Window, Window - 20))

\* C10 as stated: with fewer than 21 points the comparison value is
\* current_rs and Underperforming is never reported.
C10_ShortWindowNeverUnderperforming ==
    (RsDone /\ Window < 21) =>
        /\ rs_locals.rs_20_days_ago = rs_locals.current_rs
        /\ rs_result.trend # "Underperforming"

\* C10 amended: with fewer than 21 points the comparison value is current_rs,
\* and the trend reported is always Underperforming (never Outperforming).
C10_ShortWindowAlwaysUnderperforming ==
    (RsDone /\ Window < 21) =>
        /\ rs_locals.rs_20_days_ago = rs_locals.current_rs
        /\ rs_result.trend = "Underperforming"

\* C10 witness: a window of 2..20 points whose last RS value is above its
\* first, reported Underperforming.
C10_Witness ==
    /\ RsDone
    /\ Window > 1
    /\ Window < 21
    /\ RatioGt(Window, 1)
    /\ rs_locals.rs_20_days_ago = rs_locals.current_rs
    /\ rs_result.trend = "Underperforming"

\* the close of df on date d (a date of df)
CloseOn(df, d) == df.bars[CHOOSE i \in 1..Len(df.bars) : df.bars[i].Date = d].Close

\* the RS index the specification describes at date d of a window that
\* starts at date d0: the price ratio at d over the price ratio at d0, times 100
RefIndex(d, d0) ==
    Rat(100 * CloseOn(stock_df, d) * CloseOn(nifty_df, d0),
        CloseOn(stock_df, d0) * CloseOn(nifty_df, d))

\* C11: with a common date and positive closes, the window is exactly the
\* common dates in ascending order, the RS index is the price ratio rebased
\* to 100 at the first common date, current_rs is its last value and max_rs
\* its maximum (current_rs <= max_rs, max_rs >= 100), and vs_nifty_percent is
\* current_rs - 100.
C11_IndexOverCommonDates ==
    RsDone =>
        LET cd  == rs_locals.common_dates
            idx == rs_locals.rs_normalized
            n   == Len(cd)
        IN  /\ { cd[i] : i \in 1..n } = Dates(stock_df) \cap Dates(nifty_df)
            /\ \A i \in 1..(n - 1) : cd[i] < cd[i + 1]
            /\ Len(idx) = n
            /\ \A i \in 1..n : idx[i] = RefIndex(cd[i], cd[1])
            /\ idx[1] = FromInt(100)
            /\ rs_locals.current_rs = idx[n]
            /\ \E i \in 1..n : rs_locals.max_rs = idx[i]
            /\ \A i \in 1..n : RGeq(rs_locals.max_rs, idx[i])
            /\ rs_result.current_rs = Round2(idx[n])
            /\ rs_result.max_rs = Round2(rs_locals.max_rs)
            /\ rs_result.current_rs <= rs_result.max_rs
            /\ rs_result.max_rs >= 10000
            /\ rs_result.vs_nifty_percent = rs_result.current_rs - 10000

\* C11 witness: the benchmark starts one day after the stock, so the window
\* is shorter than the stock series; the index fell below 100 at the end and
\* peaked above 100 inside the window.
C11_Witness ==
    /\ RsDone
    /\ Len(rs_locals.common_dates) < Len(stock_df.bars)
    /\ rs_locals.common_dates[1] = 2
    /\ rs_result.current_rs < 10000
    /\ rs_result.max_rs > 10000
    /\ rs_result.vs_nifty_percent = rs_result.current_rs - 10000

----------------------------------------------------------------------------
(* Further properties of calculate_projection, checked under SpecProj *)

\* the multiplier of the specification in hundredths: 100 + 2 * months when
\* EMA(10) > EMA(50), else 100 - months
RefMultiplierPct ==
    IF lib.ema_10 > lib.ema_50 THEN 100 + 2 * months ELSE 100 - months

\* the exact projected mid: close * multiplier
RefMid == Rat(LastBar(stock_df).Close * RefMultiplierPct, 100)

\* the exact half-width of the band: mid * (ATR / close) * months
RefHalfBand == Rat(RefMultiplierPct * lib.atr * months, 100)

\* C12: the direction is 'upward' with multiplier 1 + 0.02 * months exactly
\* when EMA(10) > EMA(50), otherwise (equal EMAs included) 'downward' with
\* 1 - 0.01 * months; mid is close * multiplier and low / high are mid -/+
\* mid * (ATR / close) * months, a band symmetric about the exact mid; at
\* months = 3 the multiplier is 1.06 upward and 0.97 downward.
C12_DirectionMultiplierAndBand ==
    ProjDone =>
        LET r     == proj_result.projected_range
            close == LastBar(stock_df).Close
        IN  /\ proj_result.basis = "upward" <=> lib.ema_10 > lib.ema_50
            /\ proj_result.basis = "downward" <=> lib.ema_10 <= lib.ema_50
            /\ r.mid  = Round2(RefMid)
            /\ r.low  = Round2(RSub(RefMid, RefHalfBand))
            /\ r.high = Round2(RAdd(RefMid, RefHalfBand))
            /\ months = 3 =>
                   r.mid = IF lib.ema_10 > lib.ema_50 THEN close * 106
                           ELSE close * 97

\* C12 witness: equal EMAs at months = 3 with a positive ATR: downward, 0.97.
C12_Witness ==
    /\ ProjDone
    /\ months = 3
    /\ lib.ema_10 = lib.ema_50
    /\ lib.atr > 0
    /\ proj_result.basis = "downward"
    /\ proj_result.projected_range.mid = LastBar(stock_df).Close * 97
    /\ proj_result.projected_range.low < proj_result.projected_range.mid

\* C13: confidence depends on d = |ema10 - ema50| / ema50 * 100 alone:
\* Moderate exactly when d > 5, Low-Moderate exactly when 2 < d <= 5, Low
\* exactly when d <= 2; the same label for the mirrored EMA(10) (the other
\* direction) and for every other horizon.
C13_ConfidenceFromEmaGapAlone ==
    ProjDone =>
        LET gap100 == 100 * Abs(lib.ema_10 - lib.ema_50)
            c      == proj_result.confidence
            mirror == [lib EXCEPT !.ema_10 = 2 * lib.ema_50 - lib.ema_10]
        IN  /\ c = "Moderate" <=> gap100 > 5 * lib.ema_50
            /\ c = "Low-Moderate" <=>
                   (gap100 > 2 * lib.ema_50 /\ gap100 <= 5 * lib.ema_50)
            /\ c = "Low" <=> gap100 <= 2 * lib.ema_50
            /\ calculate_projection(stock_df, mirror, months).confidence = c
            /\ \A m \in {1, 3, MaxMonths} :
                   calculate_projection(stock_df, lib, m).confidence = c

\* C13 witness: a gap of exactly 5 percent below EMA(50), at a horizon other
\* than 3 months: Low-Moderate.
C13_Witness ==
    /\ ProjDone
    /\ 100 * (lib.ema_50 - lib.ema_10) = 5 * lib.ema_50
    /\ months > 3
    /\ proj_result.confidence = "Low-Moderate"

----------------------------------------------------------------------------
(* Properties of calculate_sma, checked under SpecSMA *)

SmaDone == "is_rising" \in DOMAIN sma_result

\* C14: is_rising is true exactly when the latest SMA value is strictly above
\* the SMA value 5 bars earlier; it is false when no SMA value 5 bars earlier
\* exists.
C14_RisingIffAboveFiveBarsEarlier ==
    SmaDone =>
        LET s == lib.sma_values
            n == Len(s)
        IN  sma_result.is_rising <=>
                (n > 5 /\ s[n] # NaN /\ s[n - 5] # NaN /\ s[n] > s[n - 5])

----------------------------------------------------------------------------
(* Properties of short series, checked under SpecShort *)

\* a call ended in an error outcome: an error dict or a raised exception
IsError(r) == "error" \in DOMAIN r \/ "raised" \in DOMAIN r

\* C15: for a non-empty series shorter than an indicator window (fewer than
\* 50 bars), calculate_strength_score and calculate_projection end in an
\* error outcome: no result is returned.
C15_ShortSeriesEndsInError ==
    (Len(stock_df.bars) > 0 /\ Len(stock_df.bars) < LongestWindow) =>
        /\ score_result = Pending \/ IsError(score_result)
        /\ proj_result = Pending \/ IsError(proj_result)

----------------------------------------------------------------------------
(* Further properties of calculate_relative_strength, checked under SpecRS *)

EmptyFrame == [bars |-> << >>]

\* the call of calculate_relative_strength was made and has ended
RsCalled == rs_result # Pending /\ stock_df # None /\ nifty_df # None

\* C16: when a series is empty or the two series share no date,
\* calculate_relative_strength ends in an error (the IndexError of the empty
\* window) and returns no result; so it does for an empty stock series with
\* the benchmark of the state.
C16_EmptyWindowRaises ==
    /\ (RsCalled /\ (stock_df = EmptyFrame \/ nifty_df = EmptyFrame
                       \/ Dates(stock_df) \cap Dates(nifty_df) = {})) =>
           /\ rs_result = Raised("IndexError")
           /\ ~RsDone
    /\ RsCalled =>
           calculate_relative_strength(EmptyFrame, nifty_df) = Raised("IndexError")

\* C16 witness: two non-empty series without a common date, and the error.
C16_Witness ==
    /\ RsCalled
    /\ stock_df # EmptyFrame
    /\ nifty_df # EmptyFrame
    /\ Dates(stock_df) \cap Dates(nifty_df) = {}
    /\ rs_result = Raised("IndexError")

----------------------------------------------------------------------------
(* Properties of the watchlist analysis handlers, checked under SpecBatch *)

\* a handler has answered a request over a non-empty watchlist
BatchDone ==
    /\ batch.response # Pending
    /\ batch.found
    /\ batch.stocks # << >>

InWatchlist == { batch.stocks[i] : i \in 1..Len(batch.stocks) }

\* nothing failed while the symbol was analysed
Clean(sym) ==
    LET o == batch.market[sym]
    IN  /\ ~Failed(o.score)
        /\ "error" \notin DOMAIN o.score
        /\ ~Failed(o.projection)
        /\ ~Failed(o.chart)

\* the symbol's strength_score reached the threshold
Reached(sym) ==
    LET a == batch.market[sym].score
    IN  /\ "strength_score" \in DOMAIN a
        /\ a.strength_score >= batch.threshold

\* C17: in both handlers a failure while one symbol is analysed excludes that
\* symbol only: every symbol of the watchlist is analysed, the response lists
\* exactly the symbols that reached the threshold and whose try block raised
\* nothing (so every cleanly analysed symbol at or above the threshold,
\* whatever happened to the others), once each, sorted by strength_score
\* descending.
C17_FailureExcludesOnlyThatSymbol ==
    BatchDone =>
        LET q      == batch.response.qualifying_stocks
            listed == { q[i].symbol : i \in 1..Len(q) }
        IN  /\ batch.analysed = batch.stocks
            /\ \A sym \in InWatchlist : (Clean(sym) /\ Reached(sym)) => sym \in listed
            /\ listed = { sym \in InWatchlist :
                            /\ Reached(sym)
                            /\ ~Failed(batch.market[sym].projection)
                            /\ ~Failed(batch.market[sym].chart) }
            /\ Len(q) = Cardinality(listed)
            /\ \A i \in 1..Len(q) : q[i].analysis = batch.market[q[i].symbol].score
            /\ \A i, j \in 1..Len(q) :
                   i < j => q[i].analysis.strength_score >= q[j].analysis.strength_score
            /\ batch.response.total_analyzed = Len(batch.stocks)

\* C17 witness: the first symbol's scoring raised; the two behind it scored
\* 65 and 80 and are listed, the 80 first.
C17_Witness ==
    /\ BatchDone
    /\ Len(batch.stocks) = 3
    /\ Failed(batch.market[batch.stocks[1]].score)
    /\ Len(batch.response.qualifying_stocks) = 2
    /\ batch.response.qualifying_stocks[1].symbol = batch.stocks[3]
    /\ batch.response.qualifying_stocks[1].analysis.strength_score = 80
    /\ batch.response.qualifying_stocks[2].symbol = batch.stocks[2]
    /\ batch.response.qualifying_stocks[2].analysis.strength_score = 65

----------------------------------------------------------------------------
(* Properties of calls in progress at once, checked under SpecCalls *)

\* a returned dict without its timestamp
WithoutTimestamp(r) == [f \in DOMAIN r \ {"timestamp"} |-> r[f]]

\* call i has returned a score
Scored(i) ==
    /\ calls.of[i].pc = Returned
    /\ "strength_score" \in DOMAIN calls.of[i].result

SameInputs(i, j) ==
    /\ calls.of[i].kind = calls.of[j].kind
    /\ calls.of[i].stock = calls.of[j].stock
    /\ calls.of[i].nifty = calls.of[j].nifty
    /\ calls.of[i].lib = calls.of[j].lib

----------------------------------------------------------------------------
(* A further property of calculate_strength_score, checked under SpecScore *)

\* the points rule k (2..10) added to the subtotal
Contribution(k) == score_locals.subtotals[k] - score_locals.subtotals[k - 1]

\* C20: when the EMA-alignment, MACD and ADX rules all contribute 0 points,
\* the trend is Weak or Neutral, never Bullish, whatever the other rules
\* contribute.
C20_NoTrendSignalNeverBullish ==
    (ScoreDone /\ Contribution(2) = 0 /\ Contribution(4) = 0 /\ Contribution(5) = 0)
        => score_result.trend \in {"Weak", "Neutral"}

\* C20 witness: the three rules gave 0 and every other rule its top tier:
\* 65 points, Neutral.
C20_Witness ==
    /\ ScoreDone
    /\ Contribution(2) = 0
    /\ Contribution(4) = 0
    /\ Contribution(5) = 0
    /\ score_result.strength_score = 65
    /\ score_result.trend = "Neutral"

----------------------------------------------------------------------------
(* A property of the rising-series scenario, checked under SpecScenario *)

\* the points of the rules the scenario leaves open: relative strength,
\* MACD and liquidity
OpenPoints ==
    score_locals.subtotals[1] + (score_locals.subtotals[4] - score_locals.subtotals[3])
        + (score_locals.subtotals[10] - score_locals.subtotals[9])

\* C21 as stated: in the scenario the score is at least 70 and the trend is
\* Bullish.
C21_ScenarioIsBullish ==
    ScoreDone =>
        /\ score_result.strength_score >= 70
        /\ score_result.trend = "Bullish"

\* C21 amended: the scenario fixes 60 points (EMA 15, RSI 12, ADX 10, volume
\* 8, SMA 8, price 7, no penalty); the score is 60 plus the points of relative
\* strength, MACD and liquidity, and the trend is Bullish exactly when those
\* give at least 10, Neutral otherwise.
C21_ScenarioAtLeastSixty ==
    ScoreDone =>
        /\ score_locals.subtotals[10] = 60 + OpenPoints
        /\ score_result.strength_score >= 60
        /\ score_result.trend = "Bullish" <=> OpenPoints >= 10
        /\ score_result.trend = "Neutral" <=> OpenPoints < 10

\* C21 witness: no benchmark, MACD below its signal, low liquidity: 60 points,
\* Neutral.
C21_Witness ==
    /\ ScoreDone
    /\ ~HasBenchmark
    /\ ~score_locals.indicators.macd.is_bullish
    /\ score_result.strength_score = 60
    /\ score_result.trend = "Neutral"

-----------------------------------------------------------------------------
(* Properties of add_stock_to_watchlists, checked under SpecAddStock *)

\* stocks holds no two entries whose symbols are equal without regard to case
NoDuplicateSymbols(stocks) ==
    \A i, j \in 1..Len(stocks) :
        Upper(stocks[i].symbol) = Upper(stocks[j].symbol) => i = j

\* C22: after any sequence or interleaving of add_stock_to_watchlists
\* requests (two concurrent requests for the same symbol and watchlist, and
\* symbols differing only in letter case, included) no watchlist holds two
\* entries with the same symbol compared case-insensitively.
C22_NoDuplicateSymbolInWatchlist ==
    \A w \in 1..Len(watchlists_collection) :
        NoDuplicateSymbols(watchlists_collection[w].stocks)

-----------------------------------------------------------------------------
(* Properties of delete_watchlist, checked under SpecDelete *)

\* the documents of a collection
Docs(coll) == { coll[i] : i \in 1..Len(coll) }

\* the response is an HTTP error
IsHTTPError(resp) == "status_code" \in DOMAIN resp

\* the request asks to delete a stored watchlist whose is_default is set
TargetsDefault(r) ==
    \E doc \in Docs(watchlists_collection) :
        doc._id = r.watchlist_id /\ doc.is_default

\* request k is answered in this step
Answered(k) == requests[k].pc # "done" /\ requests'[k].pc = "done"

\* C23: a delete_watchlist request for a watchlist whose is_default flag is
\* set is answered with an error and leaves the set of watchlists unchanged,
\* and no step of any delete_watchlist request removes a default watchlist:
\* every default watchlist still exists afterwards.
C23_DefaultWatchlistSurvivesDelete ==
    [][ /\ \A k \in 1..Len(requests) :
               Answered(k) /\ TargetsDefault(requests[k])
                   => /\ IsHTTPError(requests'[k].response)
                      /\ watchlists_collection' = watchlists_collection
        /\ \A doc \in Docs(watchlists_collection) :
               doc.is_default => doc \in Docs(watchlists_collection')
      ]_vars

\* a request to delete the user's default watchlist has been refused, and
\* another request has deleted a watchlist
C23_Witness ==
    /\ \E k \in 1..Len(requests) :
           /\ requests[k].pc = "done"
           /\ requests[k].watchlist_id = 1
           /\ IsHTTPError(requests[k].response)
           /\ requests[k].response.status_code = 400
    /\ \E k \in 1..Len(requests) :
           /\ requests[k].pc = "done"
           /\ ~IsHTTPError(requests[k].response)
    /\ \E doc \in Docs(watchlists_collection) :
           doc._id = 1 /\ doc.is_default

-----------------------------------------------------------------------------
(* Further properties of calculate_strength_score, checked under SpecScore *)

\* the explanation has an entry under this key
HasKey(explanation, key) ==
    \E i \in 1..Len(explanation) : explanation[i][1] = key

\* the points rule 8 states in its explanation entry
StatedPenalty ==
    IF HasKey(score_result.explanation, "volatility_high") THEN -10
    ELSE IF HasKey(score_result.explanation, "volatility_moderate") THEN -5
    ELSE 0

\* the ten contributions summed and floored once at the end
FlooredOnce ==
    Max(0, score_locals.subtotals[7] + StatedPenalty
           + Contribution(9) + Contribution(10))

\* C24: the floor at 0 is applied after rule 8, before rules 9 and 10 add
\* their points: the returned strength_score is never smaller than the sum
\* of all ten contributions floored once at the end (and for some inputs it
\* is strictly greater: C24_Witness).
C24_MidFloorNeverBelowFloorAtEnd ==
    ScoreDone => score_result.strength_score >= FlooredOnce

\* C24 witness: the penalty exceeded the points of rules 1-7, rules 9 and 10
\* added points, and the returned score is strictly greater than the sum
\* floored at the end.
C24_Witness ==
    /\ ScoreDone
    /\ score_locals.subtotals[7] + StatedPenalty < 0
    /\ Contribution(9) + Contribution(10) > 0
    /\ score_result.strength_score > FlooredOnce

\* C25: when the benchmark fetch yields a frame with no bars, or with no
\* date in common with the stock series, calculate_strength_score treats
\* relative strength as unavailable: it returns a ScoreResult without an
\* entry of rule 1 instead of failing.
C25_EmptyBenchmarkSkipsRuleOne ==
    ( /\ score_result # Pending
      /\ IsFrame(stock_df)
      /\ IsFrame(nifty_df)
      /\ Len(IndexIntersection(stock_df, nifty_df)) = 0 )
        => /\ ScoreDone
           /\ \A i \in 1..Len(score_result.explanation) :
                  RuleOfKey(score_result.explanation[i][1]) # 1

\* C26: the running total after rule 10 never exceeds 100, so the cap
\* min(100, score) never changes the value, and the trend computed from the
\* uncapped total is the trend of the returned strength_score.
C26_CapNeverChangesScore ==
    ScoreDone =>
        /\ score_locals.subtotals[10] <= 100
        /\ score_result.strength_score = score_locals.subtotals[10]
        /\ score_result.trend = TrendOf(score_result.strength_score)

\* C26 witness: every rule fired its top tier and no penalty: the total is
\* exactly 100.
C26_Witness ==
    /\ ScoreDone
    /\ HasBenchmark
    /\ score_locals.subtotals[10] = 100
    /\ score_result.strength_score = 100
    /\ score_result.trend = "Bullish"

\* C27: the MACD rule awards 10 points exactly when the macd line is above
\* the signal line at the latest bar; the 5-point tier fires only when
\* is_bullish holds and the rounded histogram is not positive, that is for
\* 0 < macd - signal < 0.005 (the lines are in thousandths here).
C27_TenPointsIffMacdAboveSignal ==
    ScoreDone =>
        /\ Contribution(4) = 10 <=> FGt(lib.macd_line, lib.signal_line)
        /\ Contribution(4) = 5 =>
               /\ score_locals.indicators.macd.is_bullish
               /\ ~FGt(score_locals.indicators.macd.histogram, 0)
               /\ 0 < lib.macd_line - lib.signal_line
               /\ lib.macd_line - lib.signal_line < 5

-----------------------------------------------------------------------------
(* Properties of create_default_watchlist and register, checked under
   SpecDefault *)

\* the default watchlists of a user
DefaultsOf(user_id) ==
    { i \in 1..Len(watchlists_collection) :
          /\ watchlists_collection[i].user_id = user_id
          /\ watchlists_collection[i].is_default }

\* C28: after any sequence or interleaving of register and
\* create_default_watchlist requests for one user (two concurrent
\* create_default_watchlist requests included) the user has at most one
\* watchlist with is_default set.
C28_AtMostOneDefaultWatchlist ==
    \A u \in 1..Len(users_collection) :
        Cardinality(DefaultsOf(users_collection[u]._id)) <= 1

\* two create_default_watchlist requests have each inserted a default
\* watchlist for the same user
C28_BothRequestsInserted ==
    \E j, k \in 1..Len(requests) :
        /\ j < k
        /\ requests[j].handler = "create_default_watchlist"
        /\ requests[k].handler = "create_default_watchlist"
        /\ requests[j].pc = "done" /\ "stock_count" \in DOMAIN requests[j].response
        /\ requests[k].pc = "done" /\ "stock_count" \in DOMAIN requests[k].response

-----------------------------------------------------------------------------
(* Properties of price_cache, checked under SpecPrice *)

\* the keys of the record the endpoint produces from a fresh fetch
FreshKeys(endpoint) ==
    IF endpoint = "get_market_feed"
    THEN DOMAIN fetch_latest_price("TCS") \cup {"sparkline"}
    ELSE DOMAIN fetch_latest_price("TCS")

\* C29: after any sequence of get_watchlist, get_market_feed and get_price
\* requests, a record that get_price or get_market_feed serves from
\* price_cache has the fields of a record the same endpoint produces from a
\* fresh fetch (the full price record; with sparkline for the market feed),
\* whichever endpoint wrote the cache entry.
C29_CachedRecordHasFreshFields ==
    (response # None /\ response.endpoint \in {"get_price", "get_market_feed"})
        => \A i \in 1..Len(response.records) :
               response.records[i].cached
                   => DOMAIN response.records[i].record
                          = FreshKeys(response.endpoint)

-----------------------------------------------------------------------------
(* Properties of cache_search_results, checked under SpecSearch *)

\* the items of a dict
Items(cache) == { cache[i] : i \in 1..Len(cache) }

\* the dict as the assignment of the call leaves it, before any eviction:
\* the items of before, the item of the key given the new timestamp
Assigned(before, cache_key, now) ==
    { item \in Items(before) : item.key # cache_key }
        \cup { [key |-> cache_key, timestamp |-> now] }

\* C30: after every cache_search_results call search_cache holds at most
\* 500 entries; when the insertion brings it above 500, exactly 100 entries
\* are removed and none of them is newer than an entry that stays; otherwise
\* nothing is removed; the entry just inserted is never removed.
C30_EvictsHundredOldestKeepsInserted ==
    [][ response'.calls = response.calls + 1 =>
          LET assigned == Assigned(search_cache, response'.cache_key, utcnow')
              after    == Items(search_cache')
              removed  == assigned \ after
          IN  /\ Len(search_cache') <= SearchCacheLimit
              /\ Cardinality(after) = Len(search_cache')
              /\ after \subseteq assigned
              /\ [key |-> response'.cache_key, timestamp |-> utcnow'] \in after
              /\ IF Cardinality(assigned) > SearchCacheLimit
                 THEN /\ Cardinality(removed) = SearchCacheEvict
                      /\ \A r \in removed, s \in after :
                             r.timestamp <= s.timestamp
                 ELSE removed = {}
      ]_vars

\* an insertion brought the cache above 500 entries and 100 were removed;
\* all entries had the same timestamp, the inserted one included
C30_Witness ==
    /\ response.calls > 0
    /\ Len(search_cache) = SearchCacheLimit + 1 - SearchCacheEvict
    /\ search_cache[Len(search_cache)].key = response.cache_key
    /\ \A i \in 1..Len(search_cache) : search_cache[i].timestamp = utcnow

============================================================================
